---------------------------- MODULE Spec2Model ----------------------------
(***************************************************************************)
(* Model of the PSP serial stub (src/PspSerialStub/main.c).                *)
(*                                                                         *)
(* Number representation.  TLC integers are 32 bit signed, the stub works  *)
(* on uint32_t and uint64_t.  Quantities that can exceed 2^31-1 are kept   *)
(* in limbs:                                                               *)
(*   - a uint32_t register value is a pair <<hi, lo>> of 16 bit halves;    *)
(*   - an X86PADDR is [top, mid, off]: bits 63..48, bits 47..26 (the       *)
(*     64 MiB page number inside the 48 bit space) and bits 25..0.         *)
(* Local (PSP side) pointers stay below 2^31 and are plain integers.       *)
(***************************************************************************)
EXTENDS Integers, Sequences, FiniteSets, TLC

(***************************************************************************)
(* Status codes (err.h).  INF_SUCCESS is the only one the code tests with  *)
(* "!rc"; the others are distinct non-zero values.                         *)
(***************************************************************************)
INF_SUCCESS           == "INF_SUCCESS"
INF_TRY_AGAIN         == "INF_TRY_AGAIN"
ERR_INVALID_PARAMETER == "ERR_INVALID_PARAMETER"
ERR_INVALID_STATE     == "ERR_INVALID_STATE"

(***************************************************************************)
(* Sizes.                                                                  *)
(***************************************************************************)
_64M == 67108864
_1M  == 1048576
_64K == 256 * 256

\* ELEMENTS(pThis->aX86MapSlots)
X86SlotCount == 15
X86Slots     == 0 .. (X86SlotCount - 1)

\* Local address of the first x86 mapping window.
X86WindowOrigin == 67108864

(***************************************************************************)
(* Bounds of the allocator driver.                                         *)
(***************************************************************************)
\* Most references the driver holds at a time on the freely mapped addresses.
MaxFreeRefs == 2

VARIABLES
    \* x86 mapping windows
    aX86MapSlots,   \* [X86Slots -> [PhysX86AddrBase, uMemType, cRefs]]
    x86MapRegs,     \* [X86Slots -> [w0, w1, w2, w3, mask, attr]], uint32 pairs
    x86Hist,        \* the last allocator calls: operation, arguments, result
    \* SMN mapping windows
    aSmnMapSlots,   \* [SmnSlots -> [SmnAddrBase, cRefs]]
    smnMapRegs,     \* [0 .. 15 -> uint32 pair], the control register of a slot pair
    \* timekeeping
    hwCnt,          \* the 100 MHz counter register at 0x03010424 + 32
    cCnts,          \* Timer.cCnts
    cSubMsTicks,    \* Timer.cSubMsTicks
    tmMillies,      \* the millisecond accumulator of Timer.Tm
    \* session and counters
    pc,             \* where pspStubMainloop stands
    fConnected,
    cBeaconsSent,
    cPdusSent,
    cPduRecvNext,
    \* PDU receive state machine
    enmPduRecvState,
    cbPduRecvLeft,
    offPduRecv,
    abPdu,          \* the words of abPdu[0 .. offPduRecv)
    \* the pspStubPduRecv call in progress
    tsStartMs,
    cMillies,
    rcRecv,
    \* the peer and the UART
    uartRx,         \* words the peer sent that the stub has not read yet
    peerNext,       \* the counter the peer puts into its next well-formed PDU
    peerLog,        \* what the peer sent so far: <<kind, tag>> per PDU
    cUartFaults,    \* UART write failures so far
    txLast,         \* the counter in the header of the last PDU sent, 0 if none
    \* what the last step did
    evt

x86Vars   == <<aX86MapSlots, x86MapRegs, x86Hist>>
smnVars   == <<aSmnMapSlots, smnMapRegs>>
timerVars == <<hwCnt, cCnts, cSubMsTicks, tmMillies>>
sessVars  == <<pc, fConnected, cBeaconsSent, cPdusSent, cPduRecvNext>>
recvVars  == <<enmPduRecvState, cbPduRecvLeft, offPduRecv, abPdu,
               tsStartMs, cMillies, rcRecv>>
envVars   == <<uartRx, peerNext, peerLog, cUartFaults, txLast>>
vars      == <<x86Vars, smnVars, timerVars, sessVars, recvVars, envVars, evt>>

(***************************************************************************)
(* uint32_t values as <<hi, lo>>.                                          *)
(***************************************************************************)
U32Zero      == <<0, 0>>
U32Max       == <<_64K - 1, _64K - 1>>
U32Of(n)     == <<n \div _64K, n % _64K>>
\* Only for values below 2^31.
U32Int(a)    == a[1] * _64K + a[2]

\* a + b, a - b modulo 2^32.
U32Add(a, b) ==
    LET lo == a[2] + b[2]
    IN  <<(a[1] + b[1] + lo \div _64K) % _64K, lo % _64K>>
U32Sub(a, b) ==
    LET lo == a[2] - b[2] + _64K
    IN  <<(a[1] - b[1] + _64K - 1 + lo \div _64K) % _64K, lo % _64K>>
U32Less(a, b) == a[1] < b[1] \/ (a[1] = b[1] /\ a[2] < b[2])
U32Geq(a, b)  == ~U32Less(a, b)

\* Sum of the four bytes of a 32 bit word.
U32ByteSum(a) == (a[1] \div 256) + (a[1] % 256) + (a[2] \div 256) + (a[2] % 256)

\* Bitwise or of two naturals.
RECURSIVE BitOr(_, _)
BitOr(x, y) ==
    IF x = 0 THEN y
    ELSE IF y = 0 THEN x
    ELSE (IF x % 2 = 1 \/ y % 2 = 1 THEN 1 ELSE 0) + 2 * BitOr(x \div 2, y \div 2)

(***************************************************************************)
(* x86 physical addresses.                                                 *)
(***************************************************************************)
NIL_X86PADDR == [top |-> 65535, mid |-> 4194303, off |-> 67108863]

\* PhysX86Addr & ~(_64M - 1)
X86AddrBase(PhysX86Addr) == [PhysX86Addr EXCEPT !.off = 0]

\* PhysX86Addr - PhysX86AddrBase
X86AddrOff(PhysX86Addr) == PhysX86Addr.off

\* ((PhysX86AddrBase >> 32) << 6) | ((PhysX86AddrBase >> 26) & 0x3f), stored
\* into a 32 bit register.  base >> 32 is top * 2^16 + mid \div 64.
X86SlotBaseWord(base) ==
    LET shr32 == [hi |-> base.top, lo |-> base.mid \div 64]   \* hi:16 lo:16
        low6  == base.mid % 64
        \* (shr32 << 6) truncated to 32 bit, or-ed with low6
        lo16  == ((shr32.lo * 64) % _64K) + low6
        hi16  == ((shr32.hi * 64) + (shr32.lo \div 1024)) % _64K
    IN  <<hi16, lo16>>

X86RegsClear == [w0 |-> U32Zero, w1 |-> U32Zero, w2 |-> U32Zero, w3 |-> U32Zero,
                 mask |-> U32Zero, attr |-> U32Zero]

X86SlotFree == [PhysX86AddrBase |-> NIL_X86PADDR, uMemType |-> 0, cRefs |-> 0]

\* X86SlotIsCandidate without the reuse of a slot that already maps the page.
X86SlotIsCandidate_NoReuse(slots, i, base, uMemType) ==
    /\ slots[i].PhysX86AddrBase = NIL_X86PADDR
    /\ slots[i].cRefs = 0

\* The loop condition of pspStubX86PhysMap for slot i.
X86SlotIsCandidate(slots, i, base, uMemType) ==
    \/ /\ slots[i].PhysX86AddrBase = NIL_X86PADDR
       /\ slots[i].cRefs = 0
    \/ /\ slots[i].PhysX86AddrBase = base
       /\ slots[i].uMemType = uMemType

\* X86FindSlot falling back to slot 0 when the loop finds no slot.
X86FindSlot_Evict(slots, base, uMemType) ==
    LET cand == {i \in X86Slots : X86SlotIsCandidate(slots, i, base, uMemType)}
    IN  IF cand = {} THEN 0
        ELSE CHOOSE i \in cand : \A j \in cand : i <= j

\* The first slot the loop stops at, or -1 (pMapping == NULL).
X86FindSlot(slots, base, uMemType) ==
    LET cand == {i \in X86Slots : X86SlotIsCandidate(slots, i, base, uMemType)}
    IN  IF cand = {} THEN -1
        ELSE CHOOSE i \in cand : \A j \in cand : i <= j

\* The registers of a slot after the mapping was set up.
X86RegsProgrammed(base, uMemType) ==
    [w0   |-> X86SlotBaseWord(base),
     w1   |-> U32Of(18),
     w2   |-> U32Of(uMemType),
     w3   |-> U32Of(uMemType),
     mask |-> <<65535, 65535>>,
     attr |-> <<49152, 0>>]

\* pspStubX86PhysMap: the result [rc, pv, slots, regs, fProgrammed].
pspStubX86PhysMap(slots, regs, PhysX86Addr, fMmio) ==
    LET uMemType == IF fMmio THEN 6 ELSE 4
        base     == X86AddrBase(PhysX86Addr)
        offStart == X86AddrOff(PhysX86Addr)
        idxSlot  == X86FindSlot(slots, base, uMemType)
    IN  IF idxSlot = -1
        THEN [rc |-> ERR_INVALID_STATE, pv |-> 0, slots |-> slots, regs |-> regs,
              fProgrammed |-> FALSE]
        ELSE LET fNew  == slots[idxSlot].PhysX86AddrBase = NIL_X86PADDR
                 setup == IF fNew
                          THEN [slots[idxSlot] EXCEPT !.uMemType = uMemType,
                                                      !.PhysX86AddrBase = base]
                          ELSE slots[idxSlot]
             IN  [rc    |-> INF_SUCCESS,
                  pv    |-> X86WindowOrigin + idxSlot * _64M + offStart,
                  slots |-> [slots EXCEPT ![idxSlot] =
                                [setup EXCEPT !.cRefs = (setup.cRefs + 1)]],
                  regs  |-> IF fNew
                            THEN [regs EXCEPT ![idxSlot] = X86RegsProgrammed(base, uMemType)]
                            ELSE regs,
                  fProgrammed |-> fNew]

\* idxSlot of pspStubX86PhysUnmapByPtr: ((pv & ~(_64M - 1)) - 0x04000000) / _64M
\* in 32 bit unsigned arithmetic, on the 64 MiB page number of pv.
\* An index that takes every pointer below the second window for slot 0.
X86UnmapSlotIdx_Clamped(pv) ==
    IF pv < X86WindowOrigin + _64M THEN 0 ELSE ((pv \div _64M) + 64 - 1) % 64

X86UnmapSlotIdx(pv) == ((pv \div _64M) + 64 - 1) % 64

\* pspStubX86PhysUnmapByPtr leaving base and memory type in the released slot.
pspStubX86PhysUnmapByPtr_KeepBase(slots, regs, pv) ==
    LET idxSlot == X86UnmapSlotIdx(pv)
    IN  IF idxSlot >= X86SlotCount
        THEN [rc |-> ERR_INVALID_PARAMETER, slots |-> slots, regs |-> regs]
        ELSE IF slots[idxSlot].cRefs = 0
        THEN [rc |-> ERR_INVALID_PARAMETER, slots |-> slots, regs |-> regs]
        ELSE [rc    |-> INF_SUCCESS,
              slots |-> [slots EXCEPT ![idxSlot].cRefs = @ - 1],
              regs  |-> IF slots[idxSlot].cRefs - 1 = 0
                        THEN [regs EXCEPT ![idxSlot] =
                                 [X86RegsClear EXCEPT !.mask = <<65535, 65535>>]]
                        ELSE regs]

\* pspStubX86PhysUnmapByPtr: the result [rc, slots, regs].
pspStubX86PhysUnmapByPtr(slots, regs, pv) ==
    LET idxSlot == X86UnmapSlotIdx(pv)
    IN  IF idxSlot >= X86SlotCount
        THEN [rc |-> ERR_INVALID_PARAMETER, slots |-> slots, regs |-> regs]
        ELSE IF slots[idxSlot].cRefs = 0
        THEN [rc |-> ERR_INVALID_PARAMETER, slots |-> slots, regs |-> regs]
        ELSE IF slots[idxSlot].cRefs - 1 = 0
        THEN [rc    |-> INF_SUCCESS,
              slots |-> [slots EXCEPT ![idxSlot] = X86SlotFree],
              regs  |-> [regs EXCEPT ![idxSlot] =
                            [X86RegsClear EXCEPT !.mask = <<65535, 65535>>]]]
        ELSE [rc    |-> INF_SUCCESS,
              slots |-> [slots EXCEPT ![idxSlot].cRefs = @ - 1],
              regs  |-> regs]

(***************************************************************************)
(* SMN mapping windows.  An SMNADDR is a uint32 pair; its 1 MiB page       *)
(* number (addr >> 20) is hi \div 16.                                      *)
(***************************************************************************)
\* ELEMENTS(pThis->aSmnMapSlots)
SmnSlotCount == 32
SmnSlots     == 0 .. (SmnSlotCount - 1)

\* Local address of the first SMN mapping window.
SmnWindowOrigin == 16777216

\* SmnAddr & ~(_1M - 1)
SmnAddrBase(SmnAddr) == <<SmnAddr[1] - (SmnAddr[1] % 16), 0>>

\* SmnAddr - SmnAddrBase
SmnAddrOff(SmnAddr) == (SmnAddr[1] % 16) * _64K + SmnAddr[2]

SmnSlotFree == [SmnAddrBase |-> U32Zero, cRefs |-> 0]

\* A loop condition that accepts unused slots only.
SmnSlotIsCandidate_FreeOnly(slots, i, base) ==
    /\ slots[i].SmnAddrBase = U32Zero
    /\ slots[i].cRefs = 0

\* The loop condition of pspStubSmnPhysMap for slot i.
SmnSlotIsCandidate(slots, i, base) ==
    \/ /\ slots[i].SmnAddrBase = U32Zero
       /\ slots[i].cRefs = 0
    \/ slots[i].SmnAddrBase = base

\* A search that falls back to slot 0 when no slot qualifies.
SmnFindSlot_Evict(slots, base) ==
    LET cand == {i \in SmnSlots : SmnSlotIsCandidate(slots, i, base)}
    IN  IF cand = {} THEN 0
        ELSE CHOOSE i \in cand : \A j \in cand : i <= j

SmnFindSlot(slots, base) ==
    LET cand == {i \in SmnSlots : SmnSlotIsCandidate(slots, i, base)}
    IN  IF cand = {} THEN -1
        ELSE CHOOSE i \in cand : \A j \in cand : i <= j

\* u32RegSmnMapCtrl after or-ing in the page number of base for slot idxSlot.
SmnRegOrIn(reg, idxSlot, base) ==
    IF idxSlot % 2 = 1
    THEN <<BitOr(reg[1], (base[1] \div 16) % _64K), reg[2]>>
    ELSE <<reg[1], BitOr(reg[2], base[1] \div 16)>>

\* A mask that clears the whole register.
SmnRegMaskOut_All(reg, idxSlot) == U32Zero

\* u32RegSmnMapCtrl after masking out the half of slot idxSlot.
SmnRegMaskOut(reg, idxSlot) ==
    IF idxSlot % 2 = 1 THEN <<0, reg[2]>> ELSE <<reg[1], 0>>

\* pspStubSmnPhysMap: the result [rc, pv, slots, regs].
pspStubSmnPhysMap(slots, regs, SmnAddr) ==
    LET base     == SmnAddrBase(SmnAddr)
        offStart == SmnAddrOff(SmnAddr)
        idxSlot  == SmnFindSlot(slots, base)
    IN  IF idxSlot = -1
        THEN [rc |-> ERR_INVALID_STATE, pv |-> 0, slots |-> slots, regs |-> regs]
        ELSE LET fNew == slots[idxSlot].SmnAddrBase = U32Zero
             IN  [rc    |-> INF_SUCCESS,
                  pv    |-> SmnWindowOrigin + idxSlot * _1M + offStart,
                  slots |-> [slots EXCEPT ![idxSlot] =
                                [SmnAddrBase |-> IF fNew THEN base ELSE @.SmnAddrBase,
                                 cRefs       |-> @.cRefs + 1]],
                  regs  |-> IF fNew
                            THEN [regs EXCEPT ![idxSlot \div 2] =
                                     SmnRegOrIn(@, idxSlot, base)]
                            ELSE regs]

\* idxSlot of pspStubSmnUnmapByPtr: ((pv & ~(_1M - 1)) - 0x01000000) / _1M in
\* 32 bit unsigned arithmetic, on the 1 MiB page number of pv.
SmnUnmapSlotIdx(pv) == ((pv \div _1M) + 4096 - 16) % 4096

\* pspStubSmnUnmapByPtr: the result [rc, slots, regs].
pspStubSmnUnmapByPtr(slots, regs, pv) ==
    LET idxSlot == SmnUnmapSlotIdx(pv)
    IN  IF idxSlot >= SmnSlotCount
        THEN [rc |-> ERR_INVALID_PARAMETER, slots |-> slots, regs |-> regs]
        ELSE IF slots[idxSlot].cRefs = 0
        THEN [rc |-> ERR_INVALID_PARAMETER, slots |-> slots, regs |-> regs]
        ELSE IF slots[idxSlot].cRefs - 1 = 0
        THEN [rc    |-> INF_SUCCESS,
              slots |-> [slots EXCEPT ![idxSlot] = SmnSlotFree],
              regs  |-> [regs EXCEPT ![idxSlot \div 2] = SmnRegMaskOut(@, idxSlot)]]
        ELSE [rc    |-> INF_SUCCESS,
              slots |-> [slots EXCEPT ![idxSlot].cRefs = @ - 1],
              regs  |-> regs]

\* main(): memset of the SMN slot table.
SmnSlotsInit == [i \in SmnSlots |-> SmnSlotFree]
SmnRegsInit  == [r \in 0 .. ((SmnSlotCount \div 2) - 1) |-> U32Zero]

(***************************************************************************)
(* Timekeeping.                                                            *)
(***************************************************************************)
\* 100 * 1000 ticks of the 100 MHz counter per millisecond
TicksPerMs == 100000

\* cTicksPassed \div 100000 and cTicksPassed % 100000 of a uint32 pair:
\* 100000 = 32 * 3125, and v \div 32 fits a TLC integer.
U32DivTicks(v) == ((v[1] * 2048) + (v[2] \div 32)) \div 3125
U32ModTicks(v) == ((((v[1] * 2048) + (v[2] \div 32)) % 3125) * 32) + (v[2] % 32)

\* A handler that restarts the clock from the ticks of this call.
pspStubTimerHandle_Restart(cntOld, subOld, ms, cnt) ==
    [cCnts       |-> cnt,
     cSubMsTicks |-> subOld,
     tmMillies   |-> U32DivTicks(IF U32Geq(cnt, cntOld) THEN U32Sub(cnt, cntOld)
                                 ELSE U32Sub(cntOld, cnt))]

\* A handler that forgets the millisecond the carried ticks complete.
pspStubTimerHandle_DropCarry(cntOld, subOld, ms, cnt) ==
    LET cTicksPassed == IF U32Geq(cnt, cntOld)
                        THEN U32Sub(cnt, cntOld)
                        ELSE U32Add(U32Add(cnt, U32Sub(U32Max, cntOld)), U32Of(1))
        rest == U32ModTicks(cTicksPassed) + subOld
    IN  [cCnts       |-> cnt,
         cSubMsTicks |-> IF rest >= TicksPerMs THEN rest - TicksPerMs ELSE rest,
         tmMillies   |-> ms + U32DivTicks(cTicksPassed)]

\* A handler that counts the millisecond the carried ticks complete but
\* leaves its ticks in the remainder.
pspStubTimerHandle_KeepRest(cntOld, subOld, ms, cnt) ==
    LET cTicksPassed == IF U32Geq(cnt, cntOld)
                        THEN U32Sub(cnt, cntOld)
                        ELSE U32Add(U32Add(cnt, U32Sub(U32Max, cntOld)), U32Of(1))
        rest == U32ModTicks(cTicksPassed) + subOld
    IN  [cCnts       |-> cnt,
         cSubMsTicks |-> rest,
         tmMillies   |-> ms + U32DivTicks(cTicksPassed)
                            + (IF rest >= TicksPerMs THEN 1 ELSE 0)]

\* pspStubTimerHandle with the counter register reading cnt:
\* the result [cCnts, cSubMsTicks, tmMillies].
pspStubTimerHandle(cntOld, subOld, ms, cnt) ==
    LET cTicksPassed == IF U32Geq(cnt, cntOld)
                        THEN U32Sub(cnt, cntOld)
                        ELSE U32Add(U32Add(cnt, U32Sub(U32Max, cntOld)), U32Of(1))
        whole == U32DivTicks(cTicksPassed)
        rest  == U32ModTicks(cTicksPassed) + subOld
    IN  [cCnts       |-> cnt,
         cSubMsTicks |-> IF rest >= TicksPerMs THEN rest - TicksPerMs ELSE rest,
         tmMillies   |-> ms + whole + (IF rest >= TicksPerMs THEN 1 ELSE 0)]

(***************************************************************************)
(* PDU layout (psp-stub/psp-serial-stub.h).  The wire is modelled in 32    *)
(* bit words, each a uint32 pair:                                          *)
(*   header  = <<u32Magic, cbPdu, cPdus, <<idCcd, enmRrnId>>, rcReq,       *)
(*               tsMillies>>                                               *)
(*   payload = cbPdu / 4 words                                             *)
(*   footer  = <<u32ChkSum, u32Magic>>                                     *)
(* Byte counts (cbPdu, cbPduRecvLeft, offPduRecv) stay in bytes.           *)
(***************************************************************************)
\* sizeof(PSPSERIALPDUHDR), sizeof(PSPSERIALPDUFOOTER), sizeof(abPdu)
PduHdrBytes    == 24
PduFooterBytes == 8
PduBufBytes    == 4096
PduHdrWords    == PduHdrBytes \div 4
PduFooterWords == PduFooterBytes \div 4

\* The four magics; their values are only required to differ.
PSP_SERIAL_EXT_2_PSP_PDU_START_MAGIC == <<21331, 17744>>
PSP_SERIAL_EXT_2_PSP_PDU_END_MAGIC   == <<21331, 17745>>
PSP_SERIAL_PSP_2_EXT_PDU_START_MAGIC == <<20563, 17744>>
PSP_SERIAL_PSP_2_EXT_PDU_END_MAGIC   == <<20563, 17745>>

\* PSPSERIALPDURRNID: the request range is contiguous.
PSPSERIALPDURRNID_REQUEST_FIRST             == 1
PSPSERIALPDURRNID_REQUEST_CONNECT           == 1
PSPSERIALPDURRNID_REQUEST_PSP_MEM_READ      == 2
PSPSERIALPDURRNID_REQUEST_PSP_MEM_WRITE     == 3
PSPSERIALPDURRNID_REQUEST_PSP_MMIO_READ     == 4
PSPSERIALPDURRNID_REQUEST_PSP_MMIO_WRITE    == 5
PSPSERIALPDURRNID_REQUEST_PSP_SMN_READ      == 6
PSPSERIALPDURRNID_REQUEST_PSP_SMN_WRITE     == 7
PSPSERIALPDURRNID_REQUEST_PSP_X86_MEM_READ  == 8
PSPSERIALPDURRNID_REQUEST_PSP_X86_MEM_WRITE == 9
PSPSERIALPDURRNID_REQUEST_PSP_X86_MMIO_READ == 10
PSPSERIALPDURRNID_REQUEST_PSP_X86_MMIO_WRITE == 11
PSPSERIALPDURRNID_REQUEST_INVALID_FIRST     == 12

\* sizeof(PSPSERIALPSPMEMXFERREQ) and of the SMN and x86 request structures:
\* <<address low word, address high word, cbXfer>>.
XferReqBytes == 12
XferReqWords == XferReqBytes \div 4

\* The status a failed PSPUartWrite returns.
ERR_UART_WRITE == "ERR_UART_WRITE"
\* The -1 of pspStubPduValidate.
ERR_PDU_INVALID == "ERR_PDU_INVALID"

HdrMagic(buf)    == buf[1]
HdrCbPdu(buf)    == buf[2]
HdrCPdus(buf)    == buf[3]
HdrIdCcd(buf)    == buf[4][1]
HdrEnmRrnId(buf) == buf[4][2]

\* pspStubPduHdrValidate without the comparison of the counter.
pspStubPduHdrValidate_NoCounter(buf, cNext, cCcds) ==
    /\ HdrMagic(buf) = PSP_SERIAL_EXT_2_PSP_PDU_START_MAGIC
    /\ ~U32Less(U32Of(PduBufBytes - PduHdrBytes - PduFooterBytes), HdrCbPdu(buf))
    /\ HdrEnmRrnId(buf) >= PSPSERIALPDURRNID_REQUEST_FIRST
    /\ HdrEnmRrnId(buf) < PSPSERIALPDURRNID_REQUEST_INVALID_FIRST
    /\ HdrIdCcd(buf) < cCcds

\* A validation that compares cbPdu with the size of the whole buffer.
pspStubPduHdrValidate_WholeBuf(buf, cNext, cCcds) ==
    /\ HdrMagic(buf) = PSP_SERIAL_EXT_2_PSP_PDU_START_MAGIC
    /\ ~U32Less(U32Of(PduBufBytes), HdrCbPdu(buf))
    /\ HdrEnmRrnId(buf) >= PSPSERIALPDURRNID_REQUEST_FIRST
    /\ HdrEnmRrnId(buf) < PSPSERIALPDURRNID_REQUEST_INVALID_FIRST
    /\ HdrCPdus(buf) = U32Of(cNext)
    /\ HdrIdCcd(buf) < cCcds

\* pspStubPduHdrValidate: TRUE for the return value 0.
pspStubPduHdrValidate(buf, cNext, cCcds) ==
    /\ HdrMagic(buf) = PSP_SERIAL_EXT_2_PSP_PDU_START_MAGIC
    /\ ~U32Less(U32Of(PduBufBytes - PduHdrBytes - PduFooterBytes), HdrCbPdu(buf))
    /\ HdrEnmRrnId(buf) >= PSPSERIALPDURRNID_REQUEST_FIRST
    /\ HdrEnmRrnId(buf) < PSPSERIALPDURRNID_REQUEST_INVALID_FIRST
    /\ HdrCPdus(buf) = U32Of(cNext)
    /\ HdrIdCcd(buf) < cCcds

\* Sum of the bytes of the words buf[from .. to].
RECURSIVE ByteSumOf(_, _, _)
ByteSumOf(buf, from, to) ==
    IF from > to THEN 0
    ELSE IF from = to THEN U32ByteSum(buf[from])
    ELSE ByteSumOf(buf, from, (from + to) \div 2)
            + ByteSumOf(buf, ((from + to) \div 2) + 1, to)

\* The checksum covers u.ab, the header behind u32Magic, and the payload.
PduChkSum(buf) ==
    ByteSumOf(buf, 2, PduHdrWords + (U32Int(HdrCbPdu(buf)) \div 4))

\* pspStubPduValidate: TRUE for the return value 0.
pspStubPduValidate(buf) ==
    LET n == U32Int(HdrCbPdu(buf)) \div 4
    IN  /\ U32Add(U32Of(PduChkSum(buf)), buf[PduHdrWords + n + 1]) = U32Zero
        /\ buf[PduHdrWords + n + 2] = PSP_SERIAL_EXT_2_PSP_PDU_END_MAGIC

\* A reset that leaves the write offset behind the header.
RecvReset_KeepOffset == [enmPduRecvState |-> "HDR", cbPduRecvLeft |-> PduHdrBytes,
                         offPduRecv |-> PduHdrBytes]

\* pspStubPduRecvReset
RecvReset == [enmPduRecvState |-> "HDR", cbPduRecvLeft |-> PduHdrBytes,
              offPduRecv |-> 0]

\* pspStubPduRecvAdvance on the buffered words buf in state enmState:
\* [enmPduRecvState, cbPduRecvLeft, offPduRecv, cPduRecvNext, fPduRcvd, rc, adv]
\* where offPduRecv = -1 stands for "unchanged" and adv names the branch.
pspStubPduRecvAdvance(enmState, buf, cNext, cCcds) ==
    CASE enmState = "HDR" ->
           IF pspStubPduHdrValidate(buf, cNext, cCcds)
           THEN IF HdrCbPdu(buf) # U32Zero
                THEN [enmPduRecvState |-> "PAYLOAD",
                      cbPduRecvLeft |-> U32Int(HdrCbPdu(buf)), offPduRecv |-> -1,
                      cPduRecvNext |-> cNext, fPduRcvd |-> FALSE,
                      rc |-> INF_SUCCESS, adv |-> "hdr_ok"]
                ELSE [enmPduRecvState |-> "FOOTER",
                      cbPduRecvLeft |-> PduFooterBytes, offPduRecv |-> -1,
                      cPduRecvNext |-> cNext, fPduRcvd |-> FALSE,
                      rc |-> INF_SUCCESS, adv |-> "hdr_ok"]
           ELSE RecvReset @@ [cPduRecvNext |-> cNext, fPduRcvd |-> FALSE,
                              rc |-> INF_SUCCESS, adv |-> "hdr_reject"]
      [] enmState = "PAYLOAD" ->
           [enmPduRecvState |-> "FOOTER", cbPduRecvLeft |-> PduFooterBytes,
            offPduRecv |-> -1, cPduRecvNext |-> cNext, fPduRcvd |-> FALSE,
            rc |-> INF_SUCCESS, adv |-> "payload"]
      [] enmState = "FOOTER" ->
           IF pspStubPduValidate(buf)
           THEN RecvReset @@ [cPduRecvNext |-> cNext + 1, fPduRcvd |-> TRUE,
                              rc |-> INF_SUCCESS, adv |-> "pdu_ok"]
           ELSE RecvReset @@ [cPduRecvNext |-> cNext, fPduRcvd |-> FALSE,
                              rc |-> ERR_PDU_INVALID, adv |-> "pdu_reject"]

(***************************************************************************)
(* Send path and request handlers.  They work on a record m of the stub    *)
(* fields they change:                                                     *)
(*   cPdusSent, cCnts, cSubMsTicks, tmMillies, x86s, x86r, smns, smnr      *)
(* and of what they did:                                                   *)
(*   sent   - the PDUs handed to the UART, in order                        *)
(*   hw     - the accesses to memory and device registers, in order        *)
(*   faults - the number of PSPUartWrite failures                          *)
(***************************************************************************)
\* The timer fields of m replaced by the result t of pspStubTimerHandle.
MSetTimer(m, t) ==
    [m EXCEPT !.cCnts = t.cCnts, !.cSubMsTicks = t.cSubMsTicks,
              !.tmMillies = t.tmMillies]

\* pspStubGetMillies: pspStubTimerHandle, then the accumulator is read.
MGetMillies(m) ==
    MSetTimer(m, pspStubTimerHandle(m.cCnts, m.cSubMsTicks, m.tmMillies, hwCnt))

\* A footer checksum that is the ones' complement of the sum.
PduSendChkSum_NoCarry(uChkSum) ==
    U32Sub(U32Max, U32Of(uChkSum))

\* pspStubPduSend: PduFooter.u32ChkSum = (0xffffffff - uChkSum) + 1
PduSendChkSum(uChkSum) ==
    U32Add(U32Sub(U32Max, U32Of(uChkSum)), U32Of(1))

\* pspStubPduSend: the header, in words.
PduSendHdr(cbPayload, cPdus, enmPduRrnId, idCcd, rcReq, tsMillies) ==
    <<PSP_SERIAL_PSP_2_EXT_PDU_START_MAGIC, cbPayload, cPdus,
      <<idCcd, enmPduRrnId>>, rcReq, tsMillies>>

\* pspStubPduSend: the words written to the UART for header hdr and payload
\* pl; uChkSum runs over PduHdr.u.ab and the payload.
PduSendWords(hdr, pl) ==
    hdr \o pl
        \o <<PduSendChkSum(ByteSumOf(hdr, 2, PduHdrWords) + ByteSumOf(pl, 1, Len(pl))),
             PSP_SERIAL_PSP_2_EXT_PDU_END_MAGIC>>

\* pspStubPduSend behind the initialisation of the header: m1 is the stub
\* with the counter incremented and the time read.
PduSendWrite(m1, rcReq, idCcd, enmPduRrnId, cbPayload, fUartOk) ==
    [m  |-> [m1 EXCEPT !.sent = Append(@, [u32Magic  |-> PSP_SERIAL_PSP_2_EXT_PDU_START_MAGIC,
                                           cbPdu     |-> cbPayload,
                                           cPdus     |-> m1.cPdusSent,
                                           enmRrnId  |-> enmPduRrnId,
                                           idCcd     |-> idCcd,
                                           rcReq     |-> rcReq,
                                           tsMillies |-> m1.tmMillies,
                                           fWritten  |-> fUartOk]),
                       !.faults = @ + (IF fUartOk THEN 0 ELSE 1)],
     rc |-> IF fUartOk THEN INF_SUCCESS ELSE ERR_UART_WRITE]

\* pspStubPduSend: [m, rc].  cbPayload is a uint32 pair, fUartOk the outcome
\* of the PSPUartWrite calls.
pspStubPduSend(m, rcReq, idCcd, enmPduRrnId, cbPayload, fUartOk) ==
    PduSendWrite(MGetMillies([m EXCEPT !.cPdusSent = @ + 1]),
                 rcReq, idCcd, enmPduRrnId, cbPayload, fUartOk)

\* The request structure at the start of a payload.
ReqAddrLo(pl) == pl[1]
ReqAddrHi(pl) == pl[2]
ReqCbXfer(pl) == pl[3]

\* The X86PADDR of a request: bits 63..48, 47..26, 25..0 of the two words.
ReqX86Addr(pl) ==
    [top |-> ReqAddrHi(pl)[1],
     mid |-> (ReqAddrHi(pl)[2] * 64) + (ReqAddrLo(pl)[1] \div 1024),
     off |-> ((ReqAddrLo(pl)[1] % 1024) * _64K) + ReqAddrLo(pl)[2]]

\* cbXfer is 1, 2, 4 or 8.
XferWidthOk(cbXfer) == cbXfer \in {U32Of(1), U32Of(2), U32Of(4), U32Of(8)}

\* A memcpy ("memcpy"), a pspStubMmioAccess ("mmio") or the use of memory as
\* the response payload ("payload"), of cb bytes.
HwAccess(m, kind, space, fWrite, cb) ==
    [m EXCEPT !.hw = Append(@, [kind |-> kind, space |-> space,
                                fWrite |-> fWrite, cb |-> cb])]

\* The payload size of the response: cbXfer for a read, nothing for a write.
XferRespSize(pl, fWrite) == IF fWrite THEN U32Zero ELSE ReqCbXfer(pl)

\* pspStubPduProcessPspMemXfer
pspStubPduProcessPspMemXfer(m, pl, cbPayload, fWrite, fUartOk) ==
    IF cbPayload < XferReqBytes
    THEN [m |-> m, rc |-> ERR_INVALID_PARAMETER]
    ELSE pspStubPduSend(HwAccess(m, IF fWrite THEN "memcpy" ELSE "payload", "psp",
                                 fWrite, ReqCbXfer(pl)),
                        INF_SUCCESS, 0,
                        IF fWrite THEN "RESPONSE_PSP_MEM_WRITE"
                                  ELSE "RESPONSE_PSP_MEM_READ",
                        XferRespSize(pl, fWrite), fUartOk)

\* pspStubPduProcessPspMmioXfer
pspStubPduProcessPspMmioXfer(m, pl, cbPayload, fWrite, fUartOk) ==
    IF cbPayload < XferReqBytes \/ ~XferWidthOk(ReqCbXfer(pl))
    THEN [m |-> m, rc |-> ERR_INVALID_PARAMETER]
    ELSE pspStubPduSend(HwAccess(m, "mmio", "psp", fWrite, ReqCbXfer(pl)),
                        INF_SUCCESS, 0,
                        IF fWrite THEN "RESPONSE_PSP_MEM_WRITE"
                                  ELSE "RESPONSE_PSP_MEM_READ",
                        XferRespSize(pl, fWrite), fUartOk)

\* The SMN tables of m replaced by those of the result r of a map or unmap.
MSetSmn(m, r) == [m EXCEPT !.smns = r.slots, !.smnr = r.regs]

\* The tail of the SMN handler: s is the result of pspStubPduSend, then
\* pspStubSmnUnmapByPtr(pvMap); the status is that of the send.
SmnXferUnmap(s, pvMap) ==
    [m  |-> MSetSmn(s.m, pspStubSmnUnmapByPtr(s.m.smns, s.m.smnr, pvMap)),
     rc |-> s.rc]

\* The SMN handler behind pspStubSmnPhysMap, whose result is map.
SmnXferMapped(m, map, pl, fWrite, enmResponse, fUartOk) ==
    IF map.rc = INF_SUCCESS
    THEN SmnXferUnmap(pspStubPduSend(HwAccess(MSetSmn(m, map), "mmio", "smn",
                                              fWrite, ReqCbXfer(pl)),
                                     INF_SUCCESS, 0, enmResponse,
                                     XferRespSize(pl, fWrite), fUartOk),
                      map.pv)
    ELSE pspStubPduSend(m, map.rc, 0, enmResponse, U32Zero, fUartOk)

\* pspStubPduProcessPspSmnXfer
pspStubPduProcessPspSmnXfer(m, pl, cbPayload, fWrite, fUartOk) ==
    IF cbPayload < XferReqBytes \/ ~XferWidthOk(ReqCbXfer(pl))
    THEN [m |-> m, rc |-> ERR_INVALID_PARAMETER]
    ELSE SmnXferMapped(m, pspStubSmnPhysMap(m.smns, m.smnr, ReqAddrLo(pl)),
                       pl, fWrite,
                       IF fWrite THEN "RESPONSE_PSP_SMN_WRITE"
                                 ELSE "RESPONSE_PSP_SMN_READ",
                       fUartOk)

\* The x86 tables of m replaced by those of the result r of a map or unmap.
MSetX86(m, r) == [m EXCEPT !.x86s = r.slots, !.x86r = r.regs]

\* A tail of the x86 handlers that leaves the mapping in place.
X86XferUnmap_Leak(s, pvMap) ==
    [m |-> s.m, rc |-> s.rc]

\* The tail of the x86 handlers: s is the result of pspStubPduSend, then
\* pspStubX86PhysUnmapByPtr(pvMap); the status is that of the send.
X86XferUnmap(s, pvMap) ==
    [m  |-> MSetX86(s.m, pspStubX86PhysUnmapByPtr(s.m.x86s, s.m.x86r, pvMap)),
     rc |-> s.rc]

\* The x86 handlers behind pspStubX86PhysMap, whose result is map; kind is
\* the access made.
X86XferMapped(m, map, pl, fWrite, kind, enmResponse, fUartOk) ==
    IF map.rc = INF_SUCCESS
    THEN X86XferUnmap(pspStubPduSend(HwAccess(MSetX86(m, map), kind, "x86",
                                              fWrite, ReqCbXfer(pl)),
                                     INF_SUCCESS, 0, enmResponse,
                                     XferRespSize(pl, fWrite), fUartOk),
                      map.pv)
    ELSE pspStubPduSend(m, map.rc, 0, enmResponse, U32Zero, fUartOk)

\* pspStubPduProcessPspX86MemXfer
pspStubPduProcessPspX86MemXfer(m, pl, cbPayload, fWrite, fUartOk) ==
    IF cbPayload < XferReqBytes
    THEN [m |-> m, rc |-> ERR_INVALID_PARAMETER]
    ELSE X86XferMapped(m, pspStubX86PhysMap(m.x86s, m.x86r, ReqX86Addr(pl), FALSE),
                       pl, fWrite, IF fWrite THEN "memcpy" ELSE "payload",
                       IF fWrite THEN "RESPONSE_PSP_X86_MEM_WRITE"
                                 ELSE "RESPONSE_PSP_X86_MEM_READ",
                       fUartOk)

\* pspStubPduProcessPspX86MmioXfer
pspStubPduProcessPspX86MmioXfer(m, pl, cbPayload, fWrite, fUartOk) ==
    IF cbPayload < XferReqBytes \/ ~XferWidthOk(ReqCbXfer(pl))
    THEN [m |-> m, rc |-> ERR_INVALID_PARAMETER]
    ELSE X86XferMapped(m, pspStubX86PhysMap(m.x86s, m.x86r, ReqX86Addr(pl), FALSE),
                       pl, fWrite, "mmio",
                       IF fWrite THEN "RESPONSE_PSP_X86_MMIO_WRITE"
                                 ELSE "RESPONSE_PSP_X86_MMIO_READ",
                       fUartOk)

\* pspStubPduProcess: dispatch on the request tag; [m, rc].
pspStubPduProcess(m, enmRrnId, pl, cbPdu, fUartOk) ==
    CASE enmRrnId = PSPSERIALPDURRNID_REQUEST_PSP_MEM_READ ->
           pspStubPduProcessPspMemXfer(m, pl, cbPdu, FALSE, fUartOk)
      [] enmRrnId = PSPSERIALPDURRNID_REQUEST_PSP_MEM_WRITE ->
           pspStubPduProcessPspMemXfer(m, pl, cbPdu, TRUE, fUartOk)
      [] enmRrnId = PSPSERIALPDURRNID_REQUEST_PSP_MMIO_READ ->
           pspStubPduProcessPspMmioXfer(m, pl, cbPdu, FALSE, fUartOk)
      [] enmRrnId = PSPSERIALPDURRNID_REQUEST_PSP_MMIO_WRITE ->
           pspStubPduProcessPspMmioXfer(m, pl, cbPdu, TRUE, fUartOk)
      [] enmRrnId = PSPSERIALPDURRNID_REQUEST_PSP_SMN_READ ->
           pspStubPduProcessPspSmnXfer(m, pl, cbPdu, FALSE, fUartOk)
      [] enmRrnId = PSPSERIALPDURRNID_REQUEST_PSP_SMN_WRITE ->
           pspStubPduProcessPspSmnXfer(m, pl, cbPdu, TRUE, fUartOk)
      [] enmRrnId = PSPSERIALPDURRNID_REQUEST_PSP_X86_MEM_READ ->
           pspStubPduProcessPspX86MemXfer(m, pl, cbPdu, FALSE, fUartOk)
      [] enmRrnId = PSPSERIALPDURRNID_REQUEST_PSP_X86_MEM_WRITE ->
           pspStubPduProcessPspX86MemXfer(m, pl, cbPdu, TRUE, fUartOk)
      [] enmRrnId = PSPSERIALPDURRNID_REQUEST_PSP_X86_MMIO_READ ->
           pspStubPduProcessPspX86MmioXfer(m, pl, cbPdu, FALSE, fUartOk)
      [] enmRrnId = PSPSERIALPDURRNID_REQUEST_PSP_X86_MMIO_WRITE ->
           pspStubPduProcessPspX86MmioXfer(m, pl, cbPdu, TRUE, fUartOk)
      [] OTHER -> [m |-> m, rc |-> INF_SUCCESS]

(***************************************************************************)
(* The stub as a state machine: pspStubMainloop after main() has set up    *)
(* the instance, with the peer and the hardware counter as environment.    *)
(***************************************************************************)
\* Bounds of the protocol driver.
MaxBeacons    == 2      \* beacons the driver lets the stub send
MaxPeerPdus   == 3      \* PDUs the peer sends
MaxTicks      == 2      \* advances of the hardware counter
MaxUartFaults == 1      \* PSPUartWrite calls that fail

\* main(): pThis->cCcds
cCcds == 1

\* PSP_SERIAL_STUB_INDEFINITE_WAIT and the bound of pspStubCheckConnection.
PSP_SERIAL_STUB_INDEFINITE_WAIT == U32Max
\* A wait of two seconds.
BeaconWaitMs_Long == U32Of(20 * 100)
BeaconWaitMs == U32Of(10 * 100)

\* The hardware counter advances by half a second at a time.
TickTicks == U32Of(500 * TicksPerMs)

\* sizeof(PSPSERIALBEACONNOT), sizeof(PSPSERIALCONNECTRESP): two and six
\* 32 bit fields.
BeaconBytes      == 2 * 4
ConnectRespBytes == 6 * 4
\* Sizes of the buffer the logger flushes.
LogBufSizes == {16}

\* The fields the send path and the handlers work on.
StubM ==
    [cPdusSent |-> cPdusSent, cCnts |-> cCnts, cSubMsTicks |-> cSubMsTicks,
     tmMillies |-> tmMillies, x86s |-> aX86MapSlots, x86r |-> x86MapRegs,
     smns |-> aSmnMapSlots, smnr |-> smnMapRegs,
     sent |-> <<>>, hw |-> <<>>, faults |-> 0]

StoreM(m) ==
    /\ cPdusSent'    = m.cPdusSent
    /\ cCnts'        = m.cCnts
    /\ cSubMsTicks'  = m.cSubMsTicks
    /\ tmMillies'    = m.tmMillies
    /\ aX86MapSlots' = m.x86s
    /\ x86MapRegs'   = m.x86r
    /\ aSmnMapSlots' = m.smns
    /\ smnMapRegs'   = m.smnr
    /\ cUartFaults'  = cUartFaults + m.faults
    /\ txLast'       = IF m.sent = <<>> THEN txLast
                       ELSE m.sent[Len(m.sent)].cPdus

\* Outcomes of the PSPUartWrite calls of one send.
UartOutcomes == IF cUartFaults < MaxUartFaults THEN BOOLEAN ELSE {TRUE}

\* What a step reports; the fields are overwritten by every step.
EvtNone ==
    [act       |-> "none",     \* the action
     phase     |-> "none",     \* "beacon" or "connected" for a receive step
     adv       |-> "none",     \* the branch of pspStubPduRecvAdvance taken
     why       |-> "none",     \* the check a rejected header failed
     rcRecvRet |-> "none",     \* what pspStubPduRecv returned, if it returned
     enmRrnId  |-> 0,          \* the tag of the PDU completed or dispatched
     cbXfer    |-> U32Zero,    \* the cbXfer of the dispatched request
     cbPdu     |-> 0,          \* the payload size of the dispatched request
     fProcess  |-> FALSE,      \* pspStubPduProcess ran
     rcProc    |-> "none",     \* what it returned
     sent      |-> <<>>,       \* the PDUs sent
     hw        |-> <<>>,       \* the accesses performed
     payload   |-> <<>>,       \* the payload dispatched, or the one sent
     wire      |-> <<>>,       \* the words of a PDU as framed
     pv        |-> 0]          \* the pointer an allocator call returned or took

\* The first check of pspStubPduHdrValidate that fails.
HdrRejectReason(buf, cNext) ==
    IF HdrMagic(buf) # PSP_SERIAL_EXT_2_PSP_PDU_START_MAGIC THEN "magic"
    ELSE IF U32Less(U32Of(PduBufBytes - PduHdrBytes - PduFooterBytes), HdrCbPdu(buf))
    THEN "length"
    ELSE IF \/ HdrEnmRrnId(buf) < PSPSERIALPDURRNID_REQUEST_FIRST
            \/ HdrEnmRrnId(buf) >= PSPSERIALPDURRNID_REQUEST_INVALID_FIRST
    THEN "tag"
    ELSE IF HdrCPdus(buf) # U32Of(cNext) THEN "counter"
    ELSE IF HdrIdCcd(buf) >= cCcds THEN "ccd"
    ELSE "none"

(***************************************************************************)
(* The peer.                                                               *)
(***************************************************************************)
\* The words of a PDU as the peer builds it; uChkSumOff is added to the
\* correct checksum.
PeerPdu(u32Magic, cbPdu, cPdus, enmRrnId, idCcd, payload, uChkSumOff, u32MagicEnd) ==
    LET hdr == <<u32Magic, cbPdu, U32Of(cPdus), <<idCcd, enmRrnId>>,
                 U32Zero, U32Zero>>
        sum == ByteSumOf(hdr \o payload, 2, PduHdrWords + Len(payload))
    IN  hdr \o payload
            \o <<U32Add(U32Sub(U32Zero, U32Of(sum)), U32Of(uChkSumOff)),
                 u32MagicEnd>>

\* A well-formed request with the counter cPdus.
PeerRequest(cPdus, enmRrnId, payload) ==
    PeerPdu(PSP_SERIAL_EXT_2_PSP_PDU_START_MAGIC, U32Of(4 * Len(payload)), cPdus,
            enmRrnId, 0, payload, 0, PSP_SERIAL_EXT_2_PSP_PDU_END_MAGIC)

\* Request payloads: <<address low, address high, cbXfer>> and write data.
PeerAddr(enmRrnId) ==
    IF enmRrnId <= PSPSERIALPDURRNID_REQUEST_PSP_MMIO_WRITE THEN <<5, 0>>
    ELSE IF enmRrnId <= PSPSERIALPDURRNID_REQUEST_PSP_SMN_WRITE THEN <<90, 4096>>
    ELSE <<0, 16>>
PeerIsWrite(enmRrnId) == enmRrnId % 2 = 1
PeerXfer(enmRrnId, cbXfer) ==
    <<PeerAddr(enmRrnId), U32Zero, U32Of(cbXfer)>>
        \o (IF PeerIsWrite(enmRrnId) THEN <<<<57005, 48879>>>> ELSE <<>>)

\* What the peer may send next: [kind, tag, words, fGood].  A good PDU is
\* one the parser accepts when the stream is in step.
PeerGoodMenu(n) ==
    {[kind |-> "connect", tag |-> PSPSERIALPDURRNID_REQUEST_CONNECT,
      words |-> PeerRequest(n, PSPSERIALPDURRNID_REQUEST_CONNECT, <<>>),
      fGood |-> TRUE]}
    \cup {[kind |-> "xfer", tag |-> t,
           words |-> PeerRequest(n, t, PeerXfer(t, 4)), fGood |-> TRUE] :
          t \in PSPSERIALPDURRNID_REQUEST_PSP_MEM_READ
                .. PSPSERIALPDURRNID_REQUEST_PSP_X86_MMIO_WRITE}
    \cup {[kind |-> "width", tag |-> t,
           words |-> PeerRequest(n, t, PeerXfer(t, 3)), fGood |-> TRUE] :
          t \in {PSPSERIALPDURRNID_REQUEST_PSP_MMIO_READ,
                 PSPSERIALPDURRNID_REQUEST_PSP_SMN_WRITE,
                 PSPSERIALPDURRNID_REQUEST_PSP_X86_MMIO_READ}}
    \cup {[kind |-> "short", tag |-> t,
           words |-> PeerRequest(n, t, <<PeerAddr(t), U32Zero>>), fGood |-> TRUE] :
          t \in {PSPSERIALPDURRNID_REQUEST_PSP_MEM_READ,
                 PSPSERIALPDURRNID_REQUEST_PSP_X86_MEM_WRITE}}

PeerBadPdu(kind, u32Magic, cbPdu, cPdus, enmRrnId, idCcd, payload, off, u32MagicEnd) ==
    [kind |-> kind, tag |-> enmRrnId,
     words |-> PeerPdu(u32Magic, cbPdu, cPdus, enmRrnId, idCcd, payload, off,
                       u32MagicEnd),
     fGood |-> FALSE]

PeerBadMenu(n) ==
    LET S  == PSP_SERIAL_EXT_2_PSP_PDU_START_MAGIC
        E  == PSP_SERIAL_EXT_2_PSP_PDU_END_MAGIC
        rd == PSPSERIALPDURRNID_REQUEST_PSP_MEM_READ
        pl == PeerXfer(rd, 4)
        cb == U32Of(4 * Len(pl))
    IN  {PeerBadPdu("counter", S, cb, n + 4, rd, 0, pl, 0, E),
         PeerBadPdu("counter", S, U32Zero, n + 4, rd, 0, <<>>, 0, E),
         PeerBadPdu("magic", PSP_SERIAL_PSP_2_EXT_PDU_START_MAGIC, U32Zero, n,
                    rd, 0, <<>>, 0, E),
         PeerBadPdu("length", S, U32Of(PduBufBytes - PduHdrBytes - PduFooterBytes + 4),
                    n, rd, 0, <<>>, 0, E),
         PeerBadPdu("tag", S, U32Zero, n, PSPSERIALPDURRNID_REQUEST_INVALID_FIRST,
                    0, <<>>, 0, E),
         PeerBadPdu("tag", S, U32Zero, n, PSPSERIALPDURRNID_REQUEST_FIRST - 1,
                    0, <<>>, 0, E),
         PeerBadPdu("ccd", S, U32Zero, n, rd, cCcds, <<>>, 0, E),
         PeerBadPdu("checksum", S, cb, n, rd, 0, pl, 1, E),
         PeerBadPdu("endmagic", S, cb, n, rd, 0, pl, 0,
                    PSP_SERIAL_PSP_2_EXT_PDU_END_MAGIC)}

\* The peer's choice is bounded.  Before the connection: a connect request,
\* one other request, a PDU with a wrong counter and one with a wrong
\* checksum.  Right after its connect request: everything.  After that: a
\* read request or a PDU with a wrong counter.
PeerFewMenu(n) ==
    {p \in PeerGoodMenu(n) \cup PeerBadMenu(n) :
        \/ p.kind = "xfer" /\ p.tag = PSPSERIALPDURRNID_REQUEST_PSP_MEM_READ
        \/ p.kind = "counter" /\ Len(p.words) = PduHdrWords + PduFooterWords}

PeerMenu(n) ==
    IF ~fConnected
    THEN PeerFewMenu(n)
         \cup {p \in PeerGoodMenu(n) \cup PeerBadMenu(n) :
                 p.kind \in {"connect", "checksum"}}
    ELSE IF peerLog[Len(peerLog)][1] = "connect"
    THEN PeerGoodMenu(n) \cup PeerBadMenu(n)
    ELSE PeerFewMenu(n)

\* The peer sends a whole PDU once the stub has read what was sent before.
PeerSend ==
    /\ pc \in {"beacon", "recv", "established"}
    /\ Len(peerLog) < MaxPeerPdus
    /\ uartRx = <<>>
    /\ \E p \in PeerMenu(peerNext) :
          /\ uartRx'   = p.words
          /\ peerNext' = IF p.fGood THEN peerNext + 1 ELSE peerNext
          /\ peerLog'  = Append(peerLog, <<p.kind, p.tag>>)
    /\ evt' = [EvtNone EXCEPT !.act = "peer"]
    /\ UNCHANGED <<x86Vars, smnVars, timerVars, sessVars, recvVars,
                   cUartFaults, txLast>>

\* The hardware counter runs on.
Tick ==
    /\ pc \in {"beacon", "recv", "established"}
    /\ U32Less(hwCnt, U32Of(MaxTicks * 500 * TicksPerMs))
    /\ hwCnt' = U32Add(hwCnt, TickTicks)
    /\ evt' = [EvtNone EXCEPT !.act = "tick"]
    /\ UNCHANGED <<x86Vars, smnVars, cCnts, cSubMsTicks, tmMillies, sessVars,
                   recvVars, envVars>>

(***************************************************************************)
(* The stub.  pc is the place pspStubMainloop stands at:                   *)
(*   "entering"    before LogRel("Entering")                               *)
(*   "beacon"      at the head of the beacon loop                          *)
(*   "recv"        inside the loop of pspStubPduRecv                       *)
(*   "established" before LogRel("Connection established")                 *)
(*   "exiting"     before LogRel("Exiting")                                *)
(*   "spin"        in the endless loop main() ends with                    *)
(***************************************************************************)
\* pspStubLogFlush, when the logger decides to flush: the result is dropped.
LogFlush(m, fFlush, cbBuf, fUartOk) ==
    IF fFlush
    THEN pspStubPduSend(m, INF_SUCCESS, 0, "NOTIFICATION_LOG_MSG", U32Of(cbBuf),
                        fUartOk).m
    ELSE m

\* A LogRel call of pspStubMainloop at the place from, going on at the place to.
LogRelStep(act, from, to) ==
    /\ pc = from
    /\ \E fFlush \in BOOLEAN, cbBuf \in LogBufSizes, fUartOk \in UartOutcomes :
          /\ fFlush \/ fUartOk
          /\ LET m  == LogFlush(StubM, fFlush, cbBuf, fUartOk)
                 \* "established" goes on into pspStubPduRecv
                 m1 == IF to = "recv" THEN MGetMillies(m) ELSE m
             IN  /\ StoreM(m1)
                 /\ evt' = [EvtNone EXCEPT !.act = act, !.sent = m.sent]
                 /\ IF to = "recv"
                    THEN /\ tsStartMs' = m1.tmMillies
                         /\ cMillies'  = PSP_SERIAL_STUB_INDEFINITE_WAIT
                         /\ rcRecv'    = INF_SUCCESS
                    ELSE UNCHANGED <<tsStartMs, cMillies, rcRecv>>
    /\ pc' = to
    /\ UNCHANGED <<x86Hist, hwCnt, fConnected, cBeaconsSent, cPduRecvNext,
                   enmPduRecvState, cbPduRecvLeft, offPduRecv, abPdu,
                   uartRx, peerNext, peerLog>>

MainloopEnter       == LogRelStep("enter", "entering", "beacon")
MainloopEstablished == LogRelStep("established", "established", "recv")
MainloopExit        == LogRelStep("exit", "exiting", "spin")

\* One turn of the beacon loop up to the call of pspStubPduRecv.
BeaconSend ==
    /\ pc = "beacon"
    /\ cBeaconsSent < MaxBeacons
    /\ cBeaconsSent' = cBeaconsSent + 1
    /\ \E fUartOk \in UartOutcomes :
          LET s  == pspStubPduSend(StubM, INF_SUCCESS, 0, "NOTIFICATION_BEACON",
                                   U32Of(BeaconBytes), fUartOk)
              m1 == IF s.rc = INF_SUCCESS THEN MGetMillies(s.m) ELSE s.m
          IN  /\ StoreM(m1)
              /\ evt' = [EvtNone EXCEPT !.act = "beacon", !.sent = s.m.sent,
                                        !.payload = <<U32Of(cBeaconsSent + 1),
                                                      U32Zero>>]
              /\ IF s.rc = INF_SUCCESS
                 THEN /\ pc'        = "recv"
                      /\ tsStartMs' = m1.tmMillies
                      /\ cMillies'  = BeaconWaitMs
                      /\ rcRecv'    = INF_SUCCESS
                 ELSE /\ pc' = "exiting"
                      /\ UNCHANGED <<tsStartMs, cMillies, rcRecv>>
    /\ UNCHANGED <<x86Hist, hwCnt, fConnected, cPduRecvNext,
                   enmPduRecvState, cbPduRecvLeft, offPduRecv, abPdu,
                   uartRx, peerNext, peerLog>>

Min(a, b) == IF a < b THEN a ELSE b

\* pspStubCheckConnection without the reset of cPdusSent.
pspStubCheckConnection_NoReset(m, rcRecvRet, enmRrnId, fUartOk) ==
    IF rcRecvRet = INF_SUCCESS /\ enmRrnId = PSPSERIALPDURRNID_REQUEST_CONNECT
    THEN LET s == pspStubPduSend(m, INF_SUCCESS, 0, "RESPONSE_CONNECT",
                                 U32Of(ConnectRespBytes), fUartOk)
         IN  [m |-> s.m, rc |-> INF_SUCCESS, fConnected |-> s.rc = INF_SUCCESS]
    ELSE [m |-> m, rc |-> INF_SUCCESS, fConnected |-> FALSE]

\* pspStubCheckConnection behind its pspStubPduRecv call: [m, rc, fConnected].
\* A check that takes the connection as made whatever the send returned.
pspStubCheckConnection_SendIgnored(m, rcRecvRet, enmRrnId, fUartOk) ==
    IF rcRecvRet = INF_SUCCESS /\ enmRrnId = PSPSERIALPDURRNID_REQUEST_CONNECT
    THEN LET s == pspStubPduSend([m EXCEPT !.cPdusSent = 0], INF_SUCCESS, 0,
                                 "RESPONSE_CONNECT", U32Of(ConnectRespBytes),
                                 fUartOk)
         IN  [m |-> s.m, rc |-> INF_SUCCESS, fConnected |-> TRUE]
    ELSE [m |-> m, rc |-> INF_SUCCESS, fConnected |-> FALSE]

pspStubCheckConnection(m, rcRecvRet, enmRrnId, fUartOk) ==
    IF rcRecvRet = INF_SUCCESS /\ enmRrnId = PSPSERIALPDURRNID_REQUEST_CONNECT
    THEN LET s == pspStubPduSend([m EXCEPT !.cPdusSent = 0], INF_SUCCESS, 0,
                                 "RESPONSE_CONNECT", U32Of(ConnectRespBytes),
                                 fUartOk)
         IN  [m |-> s.m, rc |-> INF_SUCCESS, fConnected |-> s.rc = INF_SUCCESS]
    ELSE [m |-> m, rc |-> INF_SUCCESS, fConnected |-> FALSE]

(***************************************************************************)
(* One turn of the loop of pspStubPduRecv, in stages.  a is the outcome of *)
(* the body: the result of pspStubPduRecvAdvance if the body called it,    *)
(* else the same record for "no state completed".  buf is abPdu with the   *)
(* words of this turn.                                                     *)
(***************************************************************************)
\* The payload of the complete PDU in buf.
PduPayload(buf) ==
    SubSeq(buf, PduHdrWords + 1, PduHdrWords + (U32Int(HdrCbPdu(buf)) \div 4))

\* A loop body that starts the PDU over whenever no state was completed.
RecvNoAdvance_Restart(cbAvail, cbThisRecv) ==
    [enmPduRecvState |-> RecvReset.enmPduRecvState,
     cbPduRecvLeft   |-> RecvReset.cbPduRecvLeft,
     offPduRecv      |-> 0,
     cPduRecvNext    |-> cPduRecvNext,
     fPduRcvd        |-> FALSE,
     rc              |-> IF cbAvail = 0 THEN rcRecv ELSE INF_SUCCESS,
     adv             |-> "none"]

\* The body of the loop without a call of pspStubPduRecvAdvance.
RecvNoAdvance(cbAvail, cbThisRecv) ==
    [enmPduRecvState |-> enmPduRecvState,
     cbPduRecvLeft   |-> cbPduRecvLeft - cbThisRecv,
     offPduRecv      |-> -1,
     cPduRecvNext    |-> cPduRecvNext,
     fPduRcvd        |-> FALSE,
     rc              |-> IF cbAvail = 0 THEN rcRecv ELSE INF_SUCCESS,
     adv             |-> "none"]

\* What the step reports about the body.
RecvEvt(buf, a) ==
    [EvtNone EXCEPT !.act   = "recv",
                    !.phase = IF fConnected THEN "connected" ELSE "beacon",
                    !.adv   = a.adv,
                    !.why   = IF a.adv = "hdr_reject"
                              THEN HdrRejectReason(buf, cPduRecvNext) ELSE "none",
                    !.enmRrnId = IF a.fPduRcvd THEN HdrEnmRrnId(buf) ELSE 0,
                    !.cbPdu    = IF a.fPduRcvd THEN U32Int(HdrCbPdu(buf)) ELSE 0,
                    !.cbXfer   = IF a.fPduRcvd /\ U32Int(HdrCbPdu(buf)) >= XferReqBytes
                                 THEN ReqCbXfer(PduPayload(buf)) ELSE U32Zero]

\* The loop goes on: the next turn follows.
RecvAgain(e, a, m) ==
    /\ StoreM(m)
    /\ pc' = "recv"
    /\ rcRecv' = a.rc
    /\ evt' = e
    /\ UNCHANGED <<fConnected, tsStartMs, cMillies>>

\* pspStubMainloop with the result rcRet: pr is the result of
\* pspStubPduProcess if the PDU was processed; then pspStubPduRecv is
\* entered again, at the time of mNext.
RecvMainloop(e, rcRet, fProcess, pr, mNext, fUartOk) ==
    /\ fUartOk \/ pr.m.sent # <<>>
    /\ StoreM(mNext)
    /\ pc' = "recv"
    /\ rcRecv' = INF_SUCCESS
    /\ tsStartMs' = mNext.tmMillies
    /\ evt' = [e EXCEPT !.rcRecvRet = rcRet, !.fProcess = fProcess,
                        !.rcProc = IF fProcess THEN pr.rc ELSE "none",
                        !.sent = pr.m.sent, !.hw = pr.m.hw]
    /\ UNCHANGED <<fConnected, cMillies>>

\* pspStubCheckConnection with the result rcRet, cc its outcome; then the
\* head of the beacon loop.
RecvBeaconLoop(e, rcRet, cc, fUartOk) ==
    /\ fUartOk \/ cc.m.sent # <<>>
    /\ StoreM(cc.m)
    /\ fConnected' = cc.fConnected
    /\ pc' = IF cc.fConnected THEN "established" ELSE "beacon"
    /\ rcRecv' = INF_SUCCESS
    /\ evt' = [e EXCEPT !.rcRecvRet = rcRet, !.sent = cc.m.sent]
    /\ UNCHANGED <<tsStartMs, cMillies>>

\* pspStubPduRecv has returned rcRet to its caller.
RecvReturned(e, buf, mPost, rcRet, fUartOk) ==
    IF fConnected
    THEN IF rcRet = INF_SUCCESS
         THEN RecvMainloop(e, rcRet, TRUE,
                           pspStubPduProcess(mPost, HdrEnmRrnId(buf), PduPayload(buf),
                                             U32Int(HdrCbPdu(buf)), fUartOk),
                           MGetMillies(pspStubPduProcess(mPost, HdrEnmRrnId(buf),
                                                         PduPayload(buf),
                                                         U32Int(HdrCbPdu(buf)),
                                                         fUartOk).m),
                           fUartOk)
         ELSE RecvMainloop(e, rcRet, FALSE, [m |-> mPost, rc |-> rcRet],
                           MGetMillies(mPost), fUartOk)
    ELSE RecvBeaconLoop(e, rcRet,
                        pspStubCheckConnection(mPost, rcRet,
                            IF rcRet = INF_SUCCESS THEN HdrEnmRrnId(buf) ELSE 0,
                            fUartOk),
                        fUartOk)

\* Behind the loop: the time is read and compared.
RecvLeave(e, buf, a, mPost, fUartOk) ==
    RecvReturned(e, buf, mPost,
                 IF U32Geq(U32Add(U32Of(tsStartMs), U32Of(mPost.tmMillies)), cMillies)
                 THEN INF_TRY_AGAIN ELSE a.rc,
                 fUartOk)

\* The loop condition; mCond is the stub after its evaluation.
RecvCondition(e, buf, a, mCond, fUartOk) ==
    IF \/ /\ a.rc = INF_SUCCESS
          /\ U32Less(U32Sub(U32Of(mCond.tmMillies), U32Of(tsStartMs)), cMillies)
       \/ cMillies = PSP_SERIAL_STUB_INDEFINITE_WAIT
    THEN fUartOk /\ RecvAgain(e, a, mCond)
    ELSE RecvLeave(e, buf, a, MGetMillies(mCond), fUartOk)

\* The parser fields after the body, then break or the loop condition.
RecvBody(cbThisRecv, buf, a, fUartOk) ==
    /\ uartRx' = SubSeq(uartRx, (cbThisRecv \div 4) + 1, Len(uartRx))
    /\ enmPduRecvState' = a.enmPduRecvState
    /\ cbPduRecvLeft'   = a.cbPduRecvLeft
    /\ offPduRecv'      = IF a.offPduRecv = -1 THEN offPduRecv + cbThisRecv
                          ELSE a.offPduRecv
    /\ abPdu'           = IF a.offPduRecv = -1 THEN buf
                          ELSE SubSeq(buf, 1, a.offPduRecv \div 4)
    /\ cPduRecvNext'    = a.cPduRecvNext
    /\ IF a.rc = INF_SUCCESS /\ a.fPduRcvd
       THEN RecvLeave(RecvEvt(buf, a), buf, a, MGetMillies(StubM), fUartOk)
       ELSE RecvCondition(RecvEvt(buf, a), buf, a,
                          IF a.rc = INF_SUCCESS THEN MGetMillies(StubM) ELSE StubM,
                          fUartOk)

\* The read of the body: MIN(cbAvail, cbPduRecvLeft) bytes, and the call of
\* pspStubPduRecvAdvance if they complete the state.
RecvRead(cbAvail, cbThisRecv, buf, fUartOk) ==
    RecvBody(cbThisRecv, buf,
             IF cbAvail > 0 /\ cbPduRecvLeft - cbThisRecv = 0
             THEN pspStubPduRecvAdvance(enmPduRecvState, buf, cPduRecvNext, cCcds)
             ELSE RecvNoAdvance(cbAvail, cbThisRecv),
             fUartOk)

\* One turn of the loop of pspStubPduRecv: the body, then either the loop
\* condition or, when the loop is left, the rest of pspStubPduRecv and what
\* its caller does with the result up to the next pspStubPduRecv call.
RecvIter ==
    /\ pc = "recv"
    /\ \E fUartOk \in UartOutcomes :
          RecvRead(4 * Len(uartRx), Min(4 * Len(uartRx), cbPduRecvLeft),
                   abPdu \o SubSeq(uartRx, 1, Min(4 * Len(uartRx), cbPduRecvLeft) \div 4),
                   fUartOk)
    /\ UNCHANGED <<x86Hist, hwCnt, cBeaconsSent, peerNext, peerLog>>

\* main() up to the call of pspStubMainloop, the allocator tables aside.
InitStub ==
    /\ aSmnMapSlots = SmnSlotsInit
    /\ smnMapRegs   = SmnRegsInit
    /\ hwCnt = U32Zero /\ cCnts = U32Zero /\ cSubMsTicks = 0 /\ tmMillies = 0
    /\ pc = "entering"
    /\ fConnected = FALSE
    /\ cBeaconsSent = 0
    /\ cPdusSent = 0
    /\ cPduRecvNext = 1
    /\ enmPduRecvState = RecvReset.enmPduRecvState
    /\ cbPduRecvLeft   = RecvReset.cbPduRecvLeft
    /\ offPduRecv      = RecvReset.offPduRecv
    /\ abPdu = <<>>
    /\ tsStartMs = 0 /\ cMillies = U32Zero /\ rcRecv = INF_SUCCESS
    /\ uartRx = <<>> /\ peerNext = 1 /\ peerLog = <<>>
    /\ cUartFaults = 0 /\ txLast = 0
    /\ evt = EvtNone

(***************************************************************************)
(* Allocator driver: the calls the x86 allocator is exercised with.        *)
(*                                                                         *)
(* Three addresses are mapped and unmapped freely with either memory type: *)
(* the UART base main() maps (above 4 GiB) and an address in the first     *)
(* 64 MiB page, while no filler page is held.  The filler pages F(1),      *)
(* F(2), ... are then mapped in ascending and unmapped in descending       *)
(* order, which is enough to occupy every slot; once every slot is         *)
(* occupied the free addresses are mapped again.                           *)
(***************************************************************************)
\* pThis->X86Uart.PhysX86UartBase = 0xfffdfc0003f8
X86UartAddr == [top |-> 0, mid |-> 4194175, off |-> 1016]
X86AddrA    == [top |-> 0, mid |-> 0,  off |-> 16]
X86Filler(k) == [top |-> 0, mid |-> 100 + k, off |-> 0]

\* One filler page more than there are slots left beside the two free pages.
X86FillerCount == X86SlotCount - 1
\* The (address, fMmio) pairs mapped freely.
X86FreeMaps    == {<<X86UartAddr, TRUE>>, <<X86AddrA, FALSE>>, <<X86AddrA, TRUE>>}

X86BaseHeld(slots, base) ==
    \E i \in X86Slots : slots[i].cRefs > 0 /\ slots[i].PhysX86AddrBase = base

X86FillerMayMap(slots, k) ==
    /\ ~X86BaseHeld(slots, X86AddrBase(X86Filler(k)))
    /\ k > 1 => X86BaseHeld(slots, X86AddrBase(X86Filler(k - 1)))

X86FillerHeld(slots) ==
    \E k \in 1 .. X86FillerCount : X86BaseHeld(slots, X86AddrBase(X86Filler(k)))

X86TableFull(slots) == \A i \in X86Slots : slots[i].cRefs > 0

X86IsFillerSlot(slots, i) ==
    \E k \in 1 .. X86FillerCount : slots[i].PhysX86AddrBase = X86AddrBase(X86Filler(k))

X86FillerMayUnmap(slots, i) ==
    \A k \in 1 .. X86FillerCount :
        slots[i].PhysX86AddrBase = X86AddrBase(X86Filler(k)) =>
            (k = X86FillerCount \/ ~X86BaseHeld(slots, X86AddrBase(X86Filler(k + 1))))

\* Pointers handed to unmap: one into every window (at an offset, as map
\* returns them), one into the window behind the last slot and one below
\* the first window.  Of the unused windows the driver tries the first.
X86UnmapPtrs ==
    {X86WindowOrigin + i * _64M + 16 : i \in 0 .. X86SlotCount}
        \cup {X86WindowOrigin - _1M}

\* x86Hist keeps the calls that follow the pattern map(X,T); map(X,T);
\* unmap; unmap (both unmaps into the window the maps returned) as far as
\* the calls made so far follow it, and otherwise the last call alone.
X86NoteCall(call) ==
    x86Hist' =
        IF /\ call.op = "map" /\ call.rc = INF_SUCCESS
           /\ Len(x86Hist) = 1
           /\ x86Hist[1].op = "map" /\ x86Hist[1].rc = INF_SUCCESS
           /\ x86Hist[1].addr = call.addr
           /\ x86Hist[1].fMmio = call.fMmio
        THEN Append(x86Hist, call)
        ELSE IF /\ call.op = "unmap" /\ call.rc = INF_SUCCESS
                /\ Len(x86Hist) \in {2, 3}
                /\ call.idxSlot = x86Hist[1].idxSlot
             THEN Append(x86Hist, call)
             ELSE <<call>>

\* The last allocator call.
X86LastCall == x86Hist[Len(x86Hist)]

X86MapCall(PhysX86Addr, fMmio) ==
    LET r   == pspStubX86PhysMap(aX86MapSlots, x86MapRegs, PhysX86Addr, fMmio)
        idx == X86FindSlot(aX86MapSlots, X86AddrBase(PhysX86Addr), IF fMmio THEN 6 ELSE 4)
    IN  /\ aX86MapSlots' = r.slots
        /\ x86MapRegs'   = r.regs
        /\ X86NoteCall([op |-> "map", addr |-> PhysX86Addr, fMmio |-> fMmio,
                        rc |-> r.rc, pv |-> r.pv, idxSlot |-> idx,
                        fProgrammed |-> r.fProgrammed,
                        cRefsBefore |-> IF idx = -1 THEN 0 ELSE aX86MapSlots[idx].cRefs,
                        cRefsAfter  |-> IF idx = -1 THEN 0 ELSE r.slots[idx].cRefs])

\* References held on pages that are not filler pages.
RECURSIVE X86RefSum(_, _)
X86RefSum(slots, S) ==
    IF S = {} THEN 0
    ELSE LET i == CHOOSE j \in S : TRUE
         IN  slots[i].cRefs + X86RefSum(slots, S \ {i})

X86FreeRefs(slots) ==
    X86RefSum(slots, {i \in X86Slots :
        \A k \in 1 .. X86FillerCount :
            slots[i].PhysX86AddrBase # X86AddrBase(X86Filler(k))})

X86MapFree ==
    \E m \in X86FreeMaps :
        /\ X86FreeRefs(aX86MapSlots) < MaxFreeRefs
        /\ ~X86FillerHeld(aX86MapSlots) \/ X86TableFull(aX86MapSlots)
        /\ X86MapCall(m[1], m[2])

X86MapFiller ==
    \E k \in 1 .. X86FillerCount :
        /\ X86FillerMayMap(aX86MapSlots, k)
        /\ X86MapCall(X86Filler(k), FALSE)

X86UnmapCall ==
    \E pv \in X86UnmapPtrs :
        LET r   == pspStubX86PhysUnmapByPtr(aX86MapSlots, x86MapRegs, pv)
            idx == X86UnmapSlotIdx(pv)
        IN  /\ idx \in X86Slots =>
                   IF X86IsFillerSlot(aX86MapSlots, idx)
                   THEN X86FillerMayUnmap(aX86MapSlots, idx)
                   ELSE IF aX86MapSlots[idx].cRefs > 0
                   THEN ~X86FillerHeld(aX86MapSlots)
                   ELSE \A j \in X86Slots : aX86MapSlots[j].cRefs = 0 => idx <= j
            /\ aX86MapSlots' = r.slots
            /\ x86MapRegs'   = r.regs
            /\ X86NoteCall([op |-> "unmap", addr |-> NIL_X86PADDR, fMmio |-> FALSE,
                            rc |-> r.rc, pv |-> 0, idxSlot |-> idx,
                            fProgrammed |-> FALSE,
                            cRefsBefore |-> IF idx \in X86Slots
                                            THEN aX86MapSlots[idx].cRefs ELSE 0,
                            cRefsAfter  |-> IF idx \in X86Slots
                                            THEN r.slots[idx].cRefs ELSE 0])

X86NoCall == [op |-> "none", addr |-> NIL_X86PADDR, fMmio |-> FALSE,
              rc |-> INF_SUCCESS, pv |-> 0, idxSlot |-> -1, fProgrammed |-> FALSE,
              cRefsBefore |-> 0, cRefsAfter |-> 0]

\* main(): memset of the slot table and the sentinel loop.
X86SlotsInit == [i \in X86Slots |-> X86SlotFree]
X86RegsInit  == [i \in X86Slots |-> X86RegsClear]

InitX86 ==
    /\ aX86MapSlots = X86SlotsInit
    /\ x86MapRegs   = X86RegsInit
    /\ x86Hist      = <<X86NoCall>>
    /\ InitStub

X86Frame == UNCHANGED <<smnVars, timerVars, sessVars, recvVars, envVars, evt>>

NextX86 ==
    \/ X86MapFree /\ X86Frame
    \/ X86MapFiller /\ X86Frame
    \/ X86UnmapCall /\ X86Frame

SpecX86 == InitX86 /\ [][NextX86]_vars

(***************************************************************************)
(* The stub with its peer.                                                 *)
(***************************************************************************)
\* main(): the UART page is mapped before pspStubMainloop runs.
Init ==
    LET map == pspStubX86PhysMap(X86SlotsInit, X86RegsInit, X86UartAddr, TRUE)
    IN  /\ aX86MapSlots = map.slots
        /\ x86MapRegs   = map.regs
        /\ x86Hist      = <<X86NoCall>>
        /\ InitStub

Next ==
    \/ MainloopEnter
    \/ BeaconSend
    \/ RecvIter
    \/ MainloopEstablished
    \/ MainloopExit
    \/ PeerSend
    \/ Tick

Spec == Init /\ [][Next]_vars

(***************************************************************************)
(* Request driver: pspStubPduProcess applied to requests of every tag,     *)
(* with mappings held by other callers of the allocators.  The SMN pages   *)
(* P(1), P(2), ... and the x86 filler pages are mapped one by one and      *)
(* kept, so that the handlers meet empty, shared and exhausted tables.     *)
(***************************************************************************)
\* Bound of the request driver: requests dispatched.
MaxReqs == 2

\* The k-th SMN page held: a 1 MiB aligned base, none of them 0.
ReqSmnPage(k) == <<16 * k, 0>>

\* Number of slots in use.
SmnHeld(slots) == Cardinality({i \in SmnSlots : slots[i].cRefs > 0})
X86Held(slots) == Cardinality({i \in X86Slots : slots[i].cRefs > 0})

\* The two address words <<low, high>> of an X86PADDR (ReqX86Addr inverted).
X86AddrWords(a) ==
    << <<((a.mid % 64) * 1024) + (a.off \div _64K), a.off % _64K>>,
       <<a.top, a.mid \div 64>> >>

\* Addresses requested per address space: PSP memory; an SMN address in the
\* first held page, one below 1 MiB and one in a page nobody holds; the x86
\* addresses of the allocator driver.
ReqAddrs(enmRrnId) ==
    IF enmRrnId <= PSPSERIALPDURRNID_REQUEST_PSP_MMIO_WRITE
    THEN {<<PeerAddr(enmRrnId), U32Zero>>}
    ELSE IF enmRrnId <= PSPSERIALPDURRNID_REQUEST_PSP_SMN_WRITE
    THEN {<< <<16, 4096>>, U32Zero>>, << <<0, 256>>, U32Zero>>,
          << <<640, 8>>, U32Zero>>}
    ELSE {X86AddrWords(X86AddrA), X86AddrWords(X86UartAddr),
          X86AddrWords(X86Filler(1))}

\* Transfer sizes requested: a register width, an odd size, and more than a
\* PDU holds.
ReqXferSizes == {4, 3, PduBufBytes - PduHdrBytes - 4}

\* Request payloads of a tag: the request structure, followed by one word of
\* data for a write; or a payload too short for the structure.
ReqPayloads(enmRrnId) ==
    {<<a[1], a[2], U32Of(cb)>>
        \o (IF PeerIsWrite(enmRrnId) THEN <<<<57005, 48879>>>> ELSE <<>>) :
        a \in ReqAddrs(enmRrnId), cb \in ReqXferSizes}
    \cup {<<a[1], a[2]>> : a \in ReqAddrs(enmRrnId)}

\* Another caller maps the next SMN page and keeps it.
ReqSmnHold ==
    /\ X86Held(aX86MapSlots) = 1
    /\ LET map == pspStubSmnPhysMap(aSmnMapSlots, smnMapRegs,
                                    ReqSmnPage(SmnHeld(aSmnMapSlots) + 1))
       IN  /\ aSmnMapSlots' = map.slots
           /\ smnMapRegs'   = map.regs
           /\ evt' = [EvtNone EXCEPT !.act = "smnmap", !.rcProc = map.rc]
    /\ UNCHANGED <<x86Vars, timerVars, sessVars, recvVars, envVars>>

\* Another caller maps the next x86 filler page and keeps it.
ReqX86Hold ==
    /\ SmnHeld(aSmnMapSlots) = 0
    /\ LET map == pspStubX86PhysMap(aX86MapSlots, x86MapRegs,
                                    X86Filler(X86Held(aX86MapSlots)), FALSE)
       IN  /\ aX86MapSlots' = map.slots
           /\ x86MapRegs'   = map.regs
           /\ evt' = [EvtNone EXCEPT !.act = "x86map", !.rcProc = map.rc]
    /\ UNCHANGED <<x86Hist, smnVars, timerVars, sessVars, recvVars, envVars>>

\* pspStubPduProcess for a received request with result pr.
ReqDispatched(enmRrnId, pl, pr) ==
    /\ StoreM(pr.m)
    /\ evt' = [EvtNone EXCEPT !.act = "process", !.phase = "connected",
                              !.enmRrnId = enmRrnId,
                              !.cbXfer = IF Len(pl) >= XferReqWords
                                         THEN ReqCbXfer(pl) ELSE U32Zero,
                              !.cbPdu = 4 * Len(pl), !.fProcess = TRUE,
                              !.rcProc = pr.rc, !.sent = pr.m.sent,
                              !.hw = pr.m.hw, !.payload = pl]
    /\ UNCHANGED <<x86Hist, hwCnt, pc, fConnected, cBeaconsSent, cPduRecvNext,
                   recvVars, uartRx, peerNext, peerLog>>

ReqProcess ==
    /\ cPdusSent < 1 + MaxReqs
    /\ \E enmRrnId \in PSPSERIALPDURRNID_REQUEST_PSP_MEM_READ ..
                       PSPSERIALPDURRNID_REQUEST_PSP_X86_MMIO_WRITE :
          \E pl \in ReqPayloads(enmRrnId), fUartOk \in UartOutcomes :
             ReqDispatched(enmRrnId, pl,
                           pspStubPduProcess(StubM, enmRrnId, pl, 4 * Len(pl),
                                             fUartOk))

\* The stub in the connected phase, the CONNECT response sent, with rx in
\* the receive FIFO of the UART and log what the peer has sent since.
InitConnected(rx, log) ==
    LET map == pspStubX86PhysMap(X86SlotsInit, X86RegsInit, X86UartAddr, TRUE)
    IN  /\ aX86MapSlots = map.slots
        /\ x86MapRegs   = map.regs
        /\ x86Hist      = <<X86NoCall>>
        /\ aSmnMapSlots = SmnSlotsInit
        /\ smnMapRegs   = SmnRegsInit
        /\ hwCnt = U32Zero /\ cCnts = U32Zero /\ cSubMsTicks = 0 /\ tmMillies = 0
        /\ pc = "recv"
        /\ fConnected = TRUE
        /\ cBeaconsSent = 1
        /\ cPdusSent = 1
        /\ cPduRecvNext = 2
        /\ enmPduRecvState = RecvReset.enmPduRecvState
        /\ cbPduRecvLeft   = RecvReset.cbPduRecvLeft
        /\ offPduRecv      = RecvReset.offPduRecv
        /\ abPdu = <<>>
        /\ tsStartMs = 0 /\ cMillies = PSP_SERIAL_STUB_INDEFINITE_WAIT
        /\ rcRecv = INF_SUCCESS
        /\ uartRx = rx /\ peerNext = 2 + Len(log) /\ peerLog = log
        /\ cUartFaults = 0 /\ txLast = 1
        /\ evt = EvtNone

InitReq == InitConnected(<<>>, <<>>)

NextReq ==
    \/ ReqSmnHold
    \/ ReqX86Hold
    \/ ReqProcess

SpecReq == InitReq /\ [][NextReq]_vars

(***************************************************************************)
(* Framing driver: pspStubPduSend builds PDUs from header fields and       *)
(* payloads drawn from small sets that include the extreme values.         *)
(***************************************************************************)
ChkCounters == {U32Of(1), <<255, 65280>>, U32Max}
ChkTags     == {1, 258, _64K - 1}
ChkCcds     == {0, _64K - 1}
ChkStatus   == {U32Zero, <<_64K - 1, _64K - 2>>, U32Max}
ChkMillies  == {U32Zero, U32Of(10 * 100), U32Max}
ChkPayloads == {<<>>, <<U32Max>>, <<U32Of(1), <<4660, 22136>>, U32Max>>,
                <<U32Max, U32Max, U32Max, U32Max, U32Max, U32Max>>}

\* pspStubPduSend called with the given arguments.
ChkSend ==
    /\ \E cPdus \in ChkCounters, enmPduRrnId \in ChkTags, idCcd \in ChkCcds,
          rcReq \in ChkStatus, tsMillies \in ChkMillies, pl \in ChkPayloads :
          evt' = [EvtNone EXCEPT
                     !.act = "send", !.payload = pl,
                     !.wire = PduSendWords(PduSendHdr(U32Of(4 * Len(pl)), cPdus,
                                                      enmPduRrnId, idCcd, rcReq,
                                                      tsMillies), pl)]
    /\ UNCHANGED <<x86Vars, smnVars, timerVars, sessVars, recvVars, envVars>>

SpecChk == Init /\ [][ChkSend]_vars

(***************************************************************************)
(* Claims about the x86 allocator (checked under SpecX86).                 *)
(***************************************************************************)
X86CtrlWordsZero(i) ==
    /\ x86MapRegs[i].w0 = U32Zero
    /\ x86MapRegs[i].w1 = U32Zero
    /\ x86MapRegs[i].w2 = U32Zero
    /\ x86MapRegs[i].w3 = U32Zero

\* C8: two consecutive successful calls map(X,T); map(X,T) return the same
\* local pointer out of the same slot, each call raises the slot's reference
\* count by exactly one, the second call programs no control register, and
\* when the first call set the slot up, two unmap calls on that window leave
\* the slot cleared: reference count 0, sentinel base, memory type 0, the
\* four control words zero.
C8_MapTwiceSamePointer ==
    /\ Len(x86Hist) >= 2 =>
         /\ x86Hist[2].pv = x86Hist[1].pv
         /\ x86Hist[2].idxSlot = x86Hist[1].idxSlot
         /\ x86Hist[1].cRefsAfter = x86Hist[1].cRefsBefore + 1
         /\ x86Hist[2].cRefsBefore = x86Hist[1].cRefsAfter
         /\ x86Hist[2].cRefsAfter = x86Hist[2].cRefsBefore + 1
         /\ ~x86Hist[2].fProgrammed
    /\ (Len(x86Hist) = 4 /\ x86Hist[1].fProgrammed) =>
         /\ aX86MapSlots[x86Hist[1].idxSlot] = X86SlotFree
         /\ X86CtrlWordsZero(x86Hist[1].idxSlot)

\* C8 witness: map; map; unmap; unmap of one page were made, the first map
\* having programmed the slot.
C8_Witness ==
    /\ Len(x86Hist) = 4
    /\ x86Hist[1].fProgrammed
    /\ x86Hist[2].cRefsAfter = 2
    /\ x86Hist[4].cRefsAfter = 0

X86AllHeldDistinct(slots) ==
    /\ \A i \in X86Slots : slots[i].cRefs > 0
    /\ \A i, j \in X86Slots :
          i # j => slots[i].PhysX86AddrBase # slots[j].PhysX86AddrBase

X86PairHeld(slots, PhysX86Addr, fMmio) ==
    \E i \in X86Slots :
        /\ slots[i].PhysX86AddrBase = X86AddrBase(PhysX86Addr)
        /\ slots[i].uMemType = IF fMmio THEN 6 ELSE 4

\* C9: when all 15 slots hold distinct bases with a reference count above 0,
\* a map call for a (base, memtype) pair no slot holds returns
\* ERR_INVALID_STATE and changes no slot and no control register.
C9_ExhaustionLeavesSlots ==
    [][ ( /\ X86AllHeldDistinct(aX86MapSlots)
          /\ X86LastCall'.op = "map"
          /\ ~X86PairHeld(aX86MapSlots, X86LastCall'.addr, X86LastCall'.fMmio) )
        => ( /\ X86LastCall'.rc = ERR_INVALID_STATE
             /\ aX86MapSlots' = aX86MapSlots
             /\ x86MapRegs' = x86MapRegs ) ]_vars

\* C9 witness: the table is full of distinct bases and the last call was a
\* map of a pair no slot holds, which failed.
C9_Witness ==
    /\ X86AllHeldDistinct(aX86MapSlots)
    /\ X86LastCall.op = "map"
    /\ X86LastCall.rc = ERR_INVALID_STATE
    /\ ~X86PairHeld(aX86MapSlots, X86LastCall.addr, X86LastCall.fMmio)

\* C10: every slot with reference count 0 has the sentinel base and memory
\* type 0; every slot with a reference count above 0 has a 64 MiB aligned
\* base that is not the sentinel and memory type 4 or 6.
C10_SlotInvariant ==
    \A i \in X86Slots :
        /\ aX86MapSlots[i].cRefs >= 0
        /\ aX86MapSlots[i].cRefs = 0 =>
              /\ aX86MapSlots[i].PhysX86AddrBase = NIL_X86PADDR
              /\ aX86MapSlots[i].uMemType = 0
        /\ aX86MapSlots[i].cRefs > 0 =>
              /\ aX86MapSlots[i].PhysX86AddrBase # NIL_X86PADDR
              /\ aX86MapSlots[i].PhysX86AddrBase.off = 0
              /\ aX86MapSlots[i].uMemType \in {4, 6}

\* C10 witness: the last call released a slot for good while slots of both
\* memory types stay held.
C10_Witness ==
    /\ X86LastCall.op = "unmap"
    /\ X86LastCall.rc = INF_SUCCESS
    /\ X86LastCall.cRefsAfter = 0
    /\ aX86MapSlots[X86LastCall.idxSlot].cRefs = 0
    /\ \E i \in X86Slots : aX86MapSlots[i].cRefs > 0 /\ aX86MapSlots[i].uMemType = 6
    /\ \E i \in X86Slots : aX86MapSlots[i].cRefs > 0 /\ aX86MapSlots[i].uMemType = 4


(***************************************************************************)
(* Claims about the protocol, checked under Spec.                          *)
(***************************************************************************)
\* C1: in the connected phase every request the parser accepted is answered
\* by exactly one PDU before the next request is read, whatever its tag and
\* also when the handler fails.  The step that completes a request runs
\* pspStubPduProcess and ends inside the next pspStubPduRecv call, so the
\* PDUs of that step are all the request can be answered with.
C1_OneResponsePerRequest ==
    evt.fProcess => Len(evt.sent) = 1


\* C2: the counters in the headers pspStubPduSend builds run 1, 2, 3, ...
\* without gap or repeat: each PDU carries the counter of the PDU sent before
\* it plus one (the first one carries 1), except the connect response, which
\* carries 1 and restarts the run.
C2_CounterChain ==
    [][\A i \in 1 .. Len(evt'.sent) :
          evt'.sent[i].cPdus =
              IF evt'.sent[i].enmRrnId = "RESPONSE_CONNECT" THEN 1
              ELSE (IF i = 1 THEN txLast ELSE evt'.sent[i - 1].cPdus) + 1]_vars

\* A response with the counter 2 follows the connect response, which itself
\* followed at least one beacon.
C2_Witness ==
    /\ fConnected /\ evt.fProcess /\ cBeaconsSent >= 1
    /\ Len(evt.sent) = 1 /\ evt.sent[1].cPdus = 2
    /\ cUartFaults = 0

\* C3: in the beacon phase a complete valid CONNECT request that arrives
\* during the wait, at whatever time since boot, is answered by a connect
\* response with the counter 1 and the connect payload, and fConnected
\* becomes true (no UART write failing).
C3_ConnectAnswered ==
    (/\ evt.act = "recv" /\ evt.phase = "beacon" /\ evt.adv = "pdu_ok"
     /\ evt.enmRrnId = PSPSERIALPDURRNID_REQUEST_CONNECT
     /\ cUartFaults = 0)
    => /\ Len(evt.sent) = 1
       /\ evt.sent[1].enmRrnId = "RESPONSE_CONNECT"
       /\ evt.sent[1].cPdus = 1
       /\ evt.sent[1].cbPdu = U32Of(ConnectRespBytes)
       /\ fConnected

\* C4: pspStubPduRecv returns INF_TRY_AGAIN only if no PDU was completed: a
\* call in which the parser accepts a PDU returns INF_SUCCESS.
C4_CompletedPduReturned ==
    (evt.act = "recv" /\ evt.adv = "pdu_ok") => evt.rcRecvRet = INF_SUCCESS

\* C5: a header that fails one of the five checks is never accepted, and the
\* step that rejects a header leaves the parser in HDR with offset 0, sends
\* nothing and changes neither cPdusSent nor cPduRecvNext.
C5_HeaderRejectSilent ==
    [][/\ (evt'.act = "recv" /\ evt'.adv = "hdr_reject")
          => /\ enmPduRecvState' = "HDR" /\ offPduRecv' = 0
             /\ cbPduRecvLeft' = PduHdrBytes
             /\ evt'.sent = <<>> /\ txLast' = txLast
             /\ cPdusSent' = cPdusSent
             /\ cPduRecvNext' = cPduRecvNext
       /\ (evt'.act = "recv" /\ evt'.adv = "hdr_ok")
          => /\ abPdu'[1] = PSP_SERIAL_EXT_2_PSP_PDU_START_MAGIC
             /\ U32Int(abPdu'[2]) <= PduBufBytes - PduHdrBytes - PduFooterBytes
             /\ abPdu'[4][2] \in PSPSERIALPDURRNID_REQUEST_FIRST
                                 .. (PSPSERIALPDURRNID_REQUEST_INVALID_FIRST - 1)
             /\ abPdu'[3] = U32Of(cPduRecvNext)
             /\ abPdu'[4][1] < cCcds]_vars

\* A header with a wrong counter was just rejected while connected, after
\* the stub had sent PDUs.
C5_Witness ==
    /\ evt.act = "recv" /\ evt.adv = "hdr_reject" /\ evt.why = "counter"
    /\ fConnected /\ cPdusSent >= 1 /\ cPduRecvNext >= 2

\* C6: after connect, a whole PDU with an unexpected counter followed by a
\* well-formed request with the expected counter: once the stub has read all
\* the peer sent, the request has been accepted (the expected counter moved
\* past it), the dropped PDU's bytes notwithstanding.
C6_GoodAfterDroppedAccepted ==
    (/\ fConnected /\ pc = "recv" /\ uartRx = <<>> /\ cUartFaults = 0
     /\ Len(peerLog) = 3
     /\ peerLog[1][1] = "connect"
     /\ peerLog[2][1] = "counter"
     /\ peerLog[3][1] = "xfer")
    => cPduRecvNext = peerNext

\* C7: a width-constrained request whose cbXfer is not 1, 2, 4 or 8 is
\* answered with one response carrying ERR_INVALID_PARAMETER and no payload,
\* and no access is made.
C7_BadWidthAnswered ==
    (/\ evt.fProcess
     /\ evt.enmRrnId \in {PSPSERIALPDURRNID_REQUEST_PSP_MMIO_READ,
                          PSPSERIALPDURRNID_REQUEST_PSP_MMIO_WRITE,
                          PSPSERIALPDURRNID_REQUEST_PSP_SMN_READ,
                          PSPSERIALPDURRNID_REQUEST_PSP_SMN_WRITE,
                          PSPSERIALPDURRNID_REQUEST_PSP_X86_MMIO_READ,
                          PSPSERIALPDURRNID_REQUEST_PSP_X86_MMIO_WRITE}
     /\ evt.cbPdu >= XferReqBytes
     /\ ~XferWidthOk(evt.cbXfer))
    => /\ evt.hw = <<>>
       /\ Len(evt.sent) = 1
       /\ evt.sent[1].rcReq = ERR_INVALID_PARAMETER
       /\ evt.sent[1].cbPdu = U32Zero

(***************************************************************************)
(* SMN allocator driver: pspStubSmnPhysMap and pspStubSmnUnmapByPtr are    *)
(* called in any order with a few addresses and pointers, valid and not.   *)
(***************************************************************************)
\* Bound of the SMN allocator driver: references held at a time.
MaxSmnRefs == 3

\* Addresses mapped: two in the page at 1 MiB, one below 1 MiB (base 0), one
\* in the page at 2 MiB and one in the last page.
SmnDriverAddrs ==
    {<<16, 4096>>, <<16, 8>>, <<0, 256>>, <<32, 0>>, <<_64K - 16, 12>>}

\* Pointers unmapped: into the windows of the first four slots, at the
\* start, inside and at the last byte; below the first window, and behind
\* the last one.
SmnDriverPtrs ==
    {SmnWindowOrigin + (i * _1M) + off : i \in 0 .. 3, off \in {0, 4096, _1M - 1}}
    \cup {0, SmnWindowOrigin - 1, SmnWindowOrigin + (SmnSlotCount * _1M)}

\* References held in all slots.
RECURSIVE SmnRefSum(_, _)
SmnRefSum(slots, n) ==
    IF n < 0 THEN 0 ELSE slots[n].cRefs + SmnRefSum(slots, n - 1)

SmnMapCall ==
    /\ SmnRefSum(aSmnMapSlots, SmnSlotCount - 1) < MaxSmnRefs
    /\ \E a \in SmnDriverAddrs :
          /\ aSmnMapSlots' = pspStubSmnPhysMap(aSmnMapSlots, smnMapRegs, a).slots
          /\ smnMapRegs'   = pspStubSmnPhysMap(aSmnMapSlots, smnMapRegs, a).regs
          /\ evt' = [EvtNone EXCEPT
                        !.act = "smnmap", !.payload = <<a>>,
                        !.rcProc = pspStubSmnPhysMap(aSmnMapSlots, smnMapRegs, a).rc,
                        !.pv = pspStubSmnPhysMap(aSmnMapSlots, smnMapRegs, a).pv]
    /\ UNCHANGED <<x86Vars, timerVars, sessVars, recvVars, envVars>>

SmnUnmapCall ==
    /\ \E pv \in SmnDriverPtrs :
          /\ aSmnMapSlots' = pspStubSmnUnmapByPtr(aSmnMapSlots, smnMapRegs, pv).slots
          /\ smnMapRegs'   = pspStubSmnUnmapByPtr(aSmnMapSlots, smnMapRegs, pv).regs
          /\ evt' = [EvtNone EXCEPT
                        !.act = "smnunmap",
                        !.rcProc = pspStubSmnUnmapByPtr(aSmnMapSlots, smnMapRegs, pv).rc,
                        !.pv = pv]
    /\ UNCHANGED <<x86Vars, timerVars, sessVars, recvVars, envVars>>

NextSmn ==
    \/ SmnMapCall
    \/ SmnUnmapCall

SpecSmn == Init /\ [][NextSmn]_vars

(***************************************************************************)
(* Buffer driver: the connection is established and the peer's stream is a *)
(* PDU whose length field lies around the capacity of abPdu, cut off at    *)
(* some word; the stub runs the loop of pspStubPduRecv on it.              *)
(***************************************************************************)
\* Values of cbPdu: small, around the largest value the header validation
\* accepts, the size of the buffer, and beyond 16 bit.
BufSizes ==
    {12, 16, PduBufBytes - PduHdrBytes - PduFooterBytes - 4,
     PduBufBytes - PduHdrBytes - PduFooterBytes,
     PduBufBytes - PduHdrBytes - PduFooterBytes + 4,
     PduBufBytes - PduHdrBytes, PduBufBytes}

\* A read request followed by filler words, cb bytes in all.
BufPayload(cb) ==
    PeerXfer(PSPSERIALPDURRNID_REQUEST_PSP_MEM_READ, 4)
        \o [i \in 1 .. ((cb \div 4) - 3) |-> <<i, 65535 - i>>]

\* The words on the wire: the PDU with cbPdu = cb and as many payload words,
\* or the same with the length field beyond 16 bit.
BufStreams ==
    {PeerPdu(PSP_SERIAL_EXT_2_PSP_PDU_START_MAGIC, U32Of(cb), 2,
             PSPSERIALPDURRNID_REQUEST_PSP_MEM_READ, 0, BufPayload(cb), off,
             PSP_SERIAL_EXT_2_PSP_PDU_END_MAGIC) : cb \in BufSizes, off \in {0, 1}}
    \cup {PeerPdu(PSP_SERIAL_EXT_2_PSP_PDU_START_MAGIC, hi, 2,
                  PSPSERIALPDURRNID_REQUEST_PSP_MEM_READ, 0, BufPayload(12), 0,
                  PSP_SERIAL_EXT_2_PSP_PDU_END_MAGIC) :
             hi \in {<<1, 0>>, <<65535, 65532>>}}

\* Where the stream stops: in the header, behind it, in the payload, behind
\* it, in the footer, or not at all.
BufCuts(w) ==
    {PduHdrWords - 1, PduHdrWords, PduHdrWords + 1, Len(w) - PduFooterWords,
     Len(w) - 1, Len(w)}

InitBuf ==
    \E w \in BufStreams :
       \E n \in BufCuts(w) :
          InitConnected(SubSeq(w, 1, n), <<<<"xfer", PSPSERIALPDURRNID_REQUEST_PSP_MEM_READ>>>>)

SpecBuf == InitBuf /\ [][RecvIter]_vars

(***************************************************************************)
(* Driver of both allocators: map and unmap calls of the x86 and the SMN   *)
(* allocator in any order, with pointers inside and outside the windows.   *)
(***************************************************************************)
\* Bound of the driver: references held in both tables at a time, the one
\* main() takes for the UART included.
MaxAllocRefs == 2

AllocRefs ==
    SmnRefSum(aSmnMapSlots, SmnSlotCount - 1) + X86RefSum(aX86MapSlots, X86Slots)

\* (address, fMmio) pairs mapped: one page as memory, at its start and its
\* last byte, and as MMIO, and the page of the UART.
AllocX86Maps ==
    {<<X86AddrA, FALSE>>, <<[X86AddrA EXCEPT !.off = _64M - 1], FALSE>>,
     <<X86AddrA, TRUE>>, <<X86UartAddr, TRUE>>}

\* Pointers unmapped: into the first three windows, at the start, inside
\* and at the last byte; below the first window, and behind the last one.
AllocX86Ptrs ==
    {X86WindowOrigin + (i * _64M) + off : i \in 0 .. 2, off \in {0, 16, _64M - 1}}
    \cup {0, X86WindowOrigin - 1, X86WindowOrigin + (X86SlotCount * _64M)}

AllocX86Map ==
    /\ AllocRefs < MaxAllocRefs
    /\ \E a \in AllocX86Maps :
          /\ aX86MapSlots' = pspStubX86PhysMap(aX86MapSlots, x86MapRegs, a[1], a[2]).slots
          /\ x86MapRegs'   = pspStubX86PhysMap(aX86MapSlots, x86MapRegs, a[1], a[2]).regs
          /\ evt' = [EvtNone EXCEPT
                        !.act = "x86map", !.payload = a,
                        !.rcProc = pspStubX86PhysMap(aX86MapSlots, x86MapRegs, a[1], a[2]).rc,
                        !.pv = pspStubX86PhysMap(aX86MapSlots, x86MapRegs, a[1], a[2]).pv]
    /\ UNCHANGED <<x86Hist, smnVars, timerVars, sessVars, recvVars, envVars>>

AllocX86Unmap ==
    /\ \E pv \in AllocX86Ptrs :
          /\ aX86MapSlots' = pspStubX86PhysUnmapByPtr(aX86MapSlots, x86MapRegs, pv).slots
          /\ x86MapRegs'   = pspStubX86PhysUnmapByPtr(aX86MapSlots, x86MapRegs, pv).regs
          /\ evt' = [EvtNone EXCEPT
                        !.act = "x86unmap",
                        !.rcProc = pspStubX86PhysUnmapByPtr(aX86MapSlots, x86MapRegs, pv).rc,
                        !.pv = pv]
    /\ UNCHANGED <<x86Hist, smnVars, timerVars, sessVars, recvVars, envVars>>

AllocSmnMap ==
    /\ AllocRefs < MaxAllocRefs
    /\ SmnMapCall

NextAlloc ==
    \/ AllocX86Map
    \/ AllocX86Unmap
    \/ AllocSmnMap
    \/ SmnUnmapCall

SpecAlloc == Init /\ [][NextAlloc]_vars

(***************************************************************************)
(* Timer driver: pspStubGetMillies is called while the counter register    *)
(* reads arbitrary values, so that it stands still, advances by less and   *)
(* by more than a millisecond, and wraps around.                           *)
(***************************************************************************)
\* Bound of the timer driver: milliseconds after which no call is made.
MaxTimerMs == 600000

\* Values the counter register reads.
TimerRawValues ==
    {U32Zero, U32Of(1), U32Of(TicksPerMs - 1), U32Of(TicksPerMs),
     U32Of(TicksPerMs + 50000), <<16384, 0>>, <<32768, 0>>, <<49152, 5>>,
     <<_64K - 1, _64K - 2>>, U32Max}

\* pspStubGetMillies with the counter register reading cnt.
TimerGetMillies ==
    /\ tmMillies < MaxTimerMs
    /\ \E cnt \in TimerRawValues :
          /\ hwCnt' = cnt
          /\ cCnts' = pspStubTimerHandle(cCnts, cSubMsTicks, tmMillies, cnt).cCnts
          /\ cSubMsTicks' =
                pspStubTimerHandle(cCnts, cSubMsTicks, tmMillies, cnt).cSubMsTicks
          /\ tmMillies' =
                pspStubTimerHandle(cCnts, cSubMsTicks, tmMillies, cnt).tmMillies
    /\ evt' = [EvtNone EXCEPT !.act = "millies"]
    /\ UNCHANGED <<x86Vars, smnVars, sessVars, recvVars, envVars>>

SpecTimer == Init /\ [][TimerGetMillies]_vars

(***************************************************************************)
(* Corruption driver: the connected stub receives a well-formed request    *)
(* with the expected counter, one bit of which was flipped on the line.    *)
(***************************************************************************)
\* The 32 bit word w with bit k flipped.
FlipHalf(x, p) == IF (x \div p) % 2 = 1 THEN x - p ELSE x + p
FlipBit(w, k) ==
    IF k < 16 THEN <<w[1], FlipHalf(w[2], 2 ^ k)>>
    ELSE <<FlipHalf(w[1], 2 ^ (k - 16)), w[2]>>

\* A write of 16 bytes whose data starts with the two words that end the
\* request structure's own PDU, the footer of a write without data.
FlipNested(n) ==
    LET t     == PSPSERIALPDURRNID_REQUEST_PSP_MEM_WRITE
        req   == <<PeerAddr(t), U32Zero, U32Of(16)>>
        inner == PeerRequest(n, t, req)
    IN  PeerRequest(n, t, req \o SubSeq(inner, PduHdrWords + XferReqWords + 1,
                                        Len(inner))
                              \o <<U32Zero, U32Zero>>)

\* The well-formed requests sent: those of the peer, and the nested write.
FlipMenu(n) ==
    {<<r.kind, r.tag, r.words>> : r \in PeerGoodMenu(n)}
    \cup {<<"nested", PSPSERIALPDURRNID_REQUEST_PSP_MEM_WRITE, FlipNested(n)>>}

\* Bits flipped: any bit of any word.  The wire is modelled in words, so the
\* two low bits of cbPdu, which make the payload end inside a word, are left
\* alone.
FlipBits(i) == IF i = 2 THEN 2 .. 31 ELSE 0 .. 31

InitFlip ==
    \E r \in FlipMenu(2) :
       \E i \in 1 .. Len(r[3]) :
          \E k \in FlipBits(i) :
             InitConnected([r[3] EXCEPT ![i] = FlipBit(@, k)],
                           <<<<r[1], r[2]>>>>)

SpecFlip == InitFlip /\ [][RecvIter]_vars

(***************************************************************************)
(* Claims about the parser, checked under Spec.                            *)
(***************************************************************************)
\* The moves of the receive state.
RecvStateMoves ==
    {<<"HDR", "PAYLOAD">>, <<"HDR", "FOOTER">>, <<"PAYLOAD", "FOOTER">>,
     <<"FOOTER", "HDR">>}

\* C21: the receive state moves only along HDR -> PAYLOAD -> FOOTER -> HDR.
\* A valid header with a payload goes to PAYLOAD with the payload length
\* left, one without goes to FOOTER with sizeof(footer) left; PAYLOAD goes
\* to FOOTER; FOOTER goes to HDR with sizeof(header) left and offset 0
\* whether or not the PDU was valid; and cPduRecvNext is incremented only by
\* the FOOTER step of a valid PDU.
C21_RecvStateOrder ==
    [][/\ enmPduRecvState' # enmPduRecvState
            => <<enmPduRecvState, enmPduRecvState'>> \in RecvStateMoves
       /\ evt'.adv = "hdr_ok"
            => /\ enmPduRecvState = "HDR"
               /\ IF HdrCbPdu(abPdu') # U32Zero
                  THEN /\ enmPduRecvState' = "PAYLOAD"
                       /\ cbPduRecvLeft' = U32Int(HdrCbPdu(abPdu'))
                  ELSE /\ enmPduRecvState' = "FOOTER"
                       /\ cbPduRecvLeft' = PduFooterBytes
       /\ evt'.adv = "hdr_reject"
            => /\ enmPduRecvState = "HDR" /\ enmPduRecvState' = "HDR"
               /\ cbPduRecvLeft' = PduHdrBytes /\ offPduRecv' = 0
       /\ evt'.adv = "payload"
            => /\ enmPduRecvState = "PAYLOAD" /\ enmPduRecvState' = "FOOTER"
               /\ cbPduRecvLeft' = PduFooterBytes
       /\ evt'.adv \in {"pdu_ok", "pdu_reject"}
            => /\ enmPduRecvState = "FOOTER" /\ enmPduRecvState' = "HDR"
               /\ cbPduRecvLeft' = PduHdrBytes /\ offPduRecv' = 0
       /\ evt'.act = "recv" => cbPduRecvLeft' > 0
       /\ (enmPduRecvState = "PAYLOAD" /\ evt'.act = "recv"
           /\ 4 * Len(uartRx) >= cbPduRecvLeft)
            => evt'.adv = "payload"
       /\ (enmPduRecvState = "FOOTER" /\ evt'.act = "recv"
           /\ 4 * Len(uartRx) >= cbPduRecvLeft)
            => evt'.adv \in {"pdu_ok", "pdu_reject"}
       /\ cPduRecvNext' # cPduRecvNext
            => /\ evt'.adv = "pdu_ok"
               /\ cPduRecvNext' = cPduRecvNext + 1]_vars

\* The FOOTER step of a PDU with a wrong checksum: back in
\* HDR with the counter where it was.
C21_Witness ==
    /\ evt.act = "recv"
    /\ evt.adv = "pdu_reject"
    /\ enmPduRecvState = "HDR"
    /\ cbPduRecvLeft = PduHdrBytes
    /\ offPduRecv = 0
    /\ cPduRecvNext = 1

(***************************************************************************)
(* Claims about the request handlers, checked under SpecReq.               *)
(***************************************************************************)
\* The reference counts of the two slot tables are those of the state before.
RefsKept ==
    /\ \A i \in SmnSlots : aSmnMapSlots'[i].cRefs = aSmnMapSlots[i].cRefs
    /\ \A i \in X86Slots : aX86MapSlots'[i].cRefs = aX86MapSlots[i].cRefs

\* C11: every handler releases what it mapped on every exit path (success,
\* send failure, map failure, parameter rejection): when pspStubPduProcess
\* has returned, each SMN and x86 slot has the reference count it had before.
C11_HandlersReleaseMappings ==
    [][evt'.fProcess => RefsKept]_vars

\* An x86 memory read that mapped a page another caller holds, whose response
\* the UART failed to write, and an SMN access answered from a shared page.
C11_Witness ==
    /\ evt.fProcess
    /\ evt.enmRrnId = PSPSERIALPDURRNID_REQUEST_PSP_X86_MEM_READ
    /\ evt.rcProc = ERR_UART_WRITE
    /\ Len(evt.hw) = 1
    /\ X86Held(aX86MapSlots) = 2
    /\ ReqX86Addr(X86AddrWords(X86Filler(1)) \o <<U32Zero>>) = X86Filler(1)

\* The tag is one of the two SMN requests.
IsSmnRequest(enmRrnId) ==
    enmRrnId \in {PSPSERIALPDURRNID_REQUEST_PSP_SMN_READ,
                  PSPSERIALPDURRNID_REQUEST_PSP_SMN_WRITE}

\* C12: with 32 distinct 1 MiB aligned SMN bases mapped and held, mapping a
\* 33rd fails with INVALID_STATE; and an SMN request whose mapping fails is
\* answered with one response PDU that carries the mapping's status in rcReq
\* and no payload, the counter of sent PDUs going up by exactly one.
C12_SmnExhaustionAnswered ==
    [][/\ (evt'.act = "smnmap" /\ SmnHeld(aSmnMapSlots) = SmnSlotCount)
            => (evt'.rcProc = ERR_INVALID_STATE /\ UNCHANGED smnVars)
       /\ (/\ evt'.fProcess
           /\ IsSmnRequest(evt'.enmRrnId)
           /\ evt'.cbPdu >= XferReqBytes
           /\ XferWidthOk(evt'.cbXfer)
           /\ pspStubSmnPhysMap(aSmnMapSlots, smnMapRegs,
                                ReqAddrLo(evt'.payload)).rc # INF_SUCCESS)
            => /\ Len(evt'.sent) = 1
               /\ evt'.sent[1].rcReq =
                     pspStubSmnPhysMap(aSmnMapSlots, smnMapRegs,
                                       ReqAddrLo(evt'.payload)).rc
               /\ evt'.sent[1].rcReq = ERR_INVALID_STATE
               /\ evt'.sent[1].cbPdu = U32Zero
               /\ evt'.sent[1].cPdus = cPdusSent + 1
               /\ cPdusSent' = cPdusSent + 1]_vars

\* All 32 slots hold distinct bases and an SMN read of a further page was
\* answered with INVALID_STATE.
C12_Witness ==
    /\ SmnHeld(aSmnMapSlots) = SmnSlotCount
    /\ \A i, j \in SmnSlots :
          aSmnMapSlots[i].SmnAddrBase = aSmnMapSlots[j].SmnAddrBase => i = j
    /\ evt.fProcess
    /\ evt.enmRrnId = PSPSERIALPDURRNID_REQUEST_PSP_SMN_READ
    /\ Len(evt.sent) = 1
    /\ evt.sent[1].rcReq = ERR_INVALID_STATE
    /\ evt.sent[1].cbPdu = U32Zero

\* C17: every PDU the stub puts on the wire - header, payload and footer -
\* is at most 4096 bytes long, also the responses to reads of PSP and x86
\* memory, whatever transfer length was requested.
C17_SentPduFitsBuffer ==
    \A i \in 1 .. Len(evt.sent) :
       PduHdrBytes + U32Int(evt.sent[i].cbPdu) + PduFooterBytes <= PduBufBytes

\* The response tag that matches a request tag: the same address space and
\* direction.
ResponseTagOf(enmRrnId) ==
    CASE enmRrnId = PSPSERIALPDURRNID_REQUEST_PSP_MEM_READ       -> "RESPONSE_PSP_MEM_READ"
      [] enmRrnId = PSPSERIALPDURRNID_REQUEST_PSP_MEM_WRITE      -> "RESPONSE_PSP_MEM_WRITE"
      [] enmRrnId = PSPSERIALPDURRNID_REQUEST_PSP_MMIO_READ      -> "RESPONSE_PSP_MMIO_READ"
      [] enmRrnId = PSPSERIALPDURRNID_REQUEST_PSP_MMIO_WRITE     -> "RESPONSE_PSP_MMIO_WRITE"
      [] enmRrnId = PSPSERIALPDURRNID_REQUEST_PSP_SMN_READ       -> "RESPONSE_PSP_SMN_READ"
      [] enmRrnId = PSPSERIALPDURRNID_REQUEST_PSP_SMN_WRITE      -> "RESPONSE_PSP_SMN_WRITE"
      [] enmRrnId = PSPSERIALPDURRNID_REQUEST_PSP_X86_MEM_READ   -> "RESPONSE_PSP_X86_MEM_READ"
      [] enmRrnId = PSPSERIALPDURRNID_REQUEST_PSP_X86_MEM_WRITE  -> "RESPONSE_PSP_X86_MEM_WRITE"
      [] enmRrnId = PSPSERIALPDURRNID_REQUEST_PSP_X86_MMIO_READ  -> "RESPONSE_PSP_X86_MMIO_READ"
      [] enmRrnId = PSPSERIALPDURRNID_REQUEST_PSP_X86_MMIO_WRITE -> "RESPONSE_PSP_X86_MMIO_WRITE"
      [] OTHER -> "INVALID"

\* C18: the response to a read or write request of each of the five address
\* spaces carries the read or write response tag of that address space, and
\* the unit id of every response is 0.
C18_ResponseTagMatches ==
    evt.fProcess =>
        \A i \in 1 .. Len(evt.sent) :
           /\ evt.sent[i].enmRrnId = ResponseTagOf(evt.enmRrnId)
           /\ evt.sent[i].idCcd = 0

C14_BitFlipRejected ==
    /\ cPduRecvNext = 2
    /\ ~evt.fProcess
    /\ evt.adv # "pdu_ok"

(***************************************************************************)
(* Further claims about the protocol, checked under Spec.                  *)
(***************************************************************************)
\* The parser fields are those the reads of this step alone account for:
\* the words taken from the UART are appended to the buffered ones.
RecvOnlyBuffered ==
    /\ abPdu' = abPdu \o SubSeq(uartRx, 1, Len(uartRx) - Len(uartRx'))
    /\ offPduRecv' = offPduRecv + (4 * (Len(uartRx) - Len(uartRx')))
    /\ cPduRecvNext' = cPduRecvNext
    /\ evt'.adv = "none" =>
          /\ enmPduRecvState' = enmPduRecvState
          /\ cbPduRecvLeft' = cbPduRecvLeft - (4 * (Len(uartRx) - Len(uartRx')))
    /\ evt'.adv = "hdr_ok" =>
          /\ enmPduRecvState' = IF HdrCbPdu(abPdu') = U32Zero
                                THEN "FOOTER" ELSE "PAYLOAD"
          /\ cbPduRecvLeft' = IF HdrCbPdu(abPdu') = U32Zero
                              THEN PduFooterBytes ELSE U32Int(HdrCbPdu(abPdu'))
    /\ evt'.adv = "payload" =>
          /\ enmPduRecvState' = "FOOTER"
          /\ cbPduRecvLeft' = PduFooterBytes

\* C15: when pspStubPduRecv returns try-again in the middle of a PDU, the
\* timeout changes nothing in the parser (state, bytes left, offset and the
\* buffered bytes are what the reads left); nothing but pspStubPduRecv
\* touches the parser; and a later call that finds the footer of the
\* buffered PDU completes that PDU.
C15_TimeoutKeepsPartialPdu ==
    [][/\ (/\ evt'.act = "recv"
           /\ evt'.rcRecvRet = INF_TRY_AGAIN
           /\ evt'.adv \in {"none", "hdr_ok", "payload"})
            => RecvOnlyBuffered
       /\ pc # "recv"
            => UNCHANGED <<enmPduRecvState, cbPduRecvLeft, offPduRecv, abPdu,
                           cPduRecvNext>>
       /\ (/\ pc = "recv"
           /\ evt'.act = "recv"
           /\ enmPduRecvState = "FOOTER"
           /\ Len(uartRx) >= PduFooterWords
           /\ pspStubPduValidate(abPdu \o SubSeq(uartRx, 1, PduFooterWords)))
            => /\ evt'.adv = "pdu_ok"
               /\ evt'.enmRrnId = HdrEnmRrnId(abPdu)
               /\ cPduRecvNext' = cPduRecvNext + 1]_vars

\* The wait of the beacon loop ran out with the header of a PDU buffered
\* and its footer still in the UART.
C15_Witness ==
    /\ pc = "beacon"
    /\ evt.act = "recv"
    /\ evt.rcRecvRet = INF_TRY_AGAIN
    /\ evt.adv = "hdr_ok"
    /\ enmPduRecvState = "FOOTER"
    /\ offPduRecv = PduHdrBytes
    /\ Len(abPdu) = PduHdrWords
    /\ Len(uartRx) = PduFooterWords

\* C16: in the connected phase, when pspStubPduProcess (the handler or the
\* send of its response) has returned a failure, the loop of pspStubMainloop
\* is left: the stub is on its way to the final spin and pspStubPduRecv is
\* not entered again.
C16_FailureEndsLoop ==
    (/\ evt.act = "recv"
     /\ evt.phase = "connected"
     /\ evt.fProcess
     /\ evt.rcProc # INF_SUCCESS)
        => pc \in {"exiting", "spin"}

C19_MilliesMonotonic ==
    [][/\ tmMillies' >= tmMillies
       /\ cSubMsTicks' < TicksPerMs
       /\ cCnts' = hwCnt']_vars

\* The register read 0xffffffff and then 0: one tick later the clock stands
\* at the 42949 ms and 67296 ticks that 2^32 ticks are.
C19_Witness ==
    /\ evt.act = "millies"
    /\ cCnts = U32Zero
    /\ tmMillies = 42949
    /\ cSubMsTicks = 67296

\* C22: the clock accounts for every raw tick.  In each call the ticks that
\* passed are (reading - stored reading) modulo 2^32, and
\* 100000 * (milliseconds issued) + cSubMsTicks grows by exactly that
\* number, so from init on it equals the raw ticks elapsed, also across a
\* wrap of the counter.  Both sides are compared in units of 32 ticks and
\* the ticks below, 100000 being 32 * 3125.
C22_TicksConserved ==
    [][evt'.act = "millies" =>
          /\ (3125 * (tmMillies' - tmMillies)) + (cSubMsTicks' \div 32)
                = (U32Sub(hwCnt', cCnts)[1] * 2048)
                  + (U32Sub(hwCnt', cCnts)[2] \div 32)
                  + (((U32Sub(hwCnt', cCnts)[2] % 32) + cSubMsTicks) \div 32)
          /\ cSubMsTicks' % 32
                = ((U32Sub(hwCnt', cCnts)[2] % 32) + cSubMsTicks) % 32
          /\ cSubMsTicks' < TicksPerMs]_vars

\* The register read 0xffffffff and then 1: 2^32 + 1 ticks are 42949 ms and
\* 67297 ticks.
C22_Witness ==
    /\ evt.act = "millies"
    /\ cCnts = U32Of(1)
    /\ tmMillies = 42949
    /\ cSubMsTicks = 67297

\* C25: a call of pspStubPduRecv with a finite bound that completes no valid
\* PDU returns try-again only when the time elapsed since its start, taken
\* modulo 2^32, has reached cMillies.
C25_TryAgainNotBeforeBound ==
    [][(/\ evt'.act = "recv"
        /\ evt'.rcRecvRet = INF_TRY_AGAIN
        /\ evt'.adv # "pdu_ok"
        /\ cMillies # PSP_SERIAL_STUB_INDEFINITE_WAIT)
          => U32Geq(U32Sub(U32Of(tmMillies'), U32Of(tsStartMs)), cMillies)]_vars

\* C27: the data bytes a handler copies out of the payload of a write
\* request are at most the bytes of the payload behind the request
\* structure, cbPayload - sizeof(request).  Checked under SpecReq.
C27_WriteDataWithinPayload ==
    evt.act = "process"
       => \A i \in 1 .. Len(evt.hw) :
             evt.hw[i].fWrite
                => U32Int(evt.hw[i].cb) <= (4 * Len(evt.payload)) - XferReqBytes

\* C28: no two x86 slots that are referenced hold the same pair of base
\* address and memory type.  Checked under SpecX86.
C28_X86HeldPairsDistinct ==
    \A i, j \in X86Slots :
       (i # j /\ aX86MapSlots[i].cRefs > 0 /\ aX86MapSlots[j].cRefs > 0)
          => ~(/\ aX86MapSlots[i].PhysX86AddrBase = aX86MapSlots[j].PhysX86AddrBase
               /\ aX86MapSlots[i].uMemType = aX86MapSlots[j].uMemType)

\* A pspStubPduRecv call of the beacon phase has handed a PDU to
\* pspStubCheckConnection in the step taken.
BeaconPduHandled ==
    /\ evt'.act = "recv"
    /\ evt'.phase = "beacon"
    /\ evt'.rcRecvRet = INF_SUCCESS

\* C29: fConnected is false at boot; it changes only from false to true and
\* only in the step in which the response to a CONNECT request of the beacon
\* phase was sent successfully; a CONNECT request whose response could not
\* be sent and a request with another tag leave it false and the stub at
\* the head of the beacon loop.  Checked under Spec.
C29_ConnectedOnlyByConnect ==
    /\ ~fConnected
    /\ [][/\ fConnected' # fConnected
               => /\ ~fConnected
                  /\ BeaconPduHandled
                  /\ evt'.enmRrnId = PSPSERIALPDURRNID_REQUEST_CONNECT
                  /\ Len(evt'.sent) = 1
                  /\ evt'.sent[1].enmRrnId = "RESPONSE_CONNECT"
                  /\ evt'.sent[1].fWritten
          /\ (BeaconPduHandled /\ evt'.enmRrnId = PSPSERIALPDURRNID_REQUEST_CONNECT)
               => /\ Len(evt'.sent) = 1
                  /\ fConnected' = evt'.sent[1].fWritten
                  /\ ~fConnected' => pc' = "beacon"
          /\ (BeaconPduHandled /\ evt'.enmRrnId # PSPSERIALPDURRNID_REQUEST_CONNECT)
               => /\ evt'.sent = <<>>
                  /\ ~fConnected'
                  /\ pc' = "beacon"]_vars

\* The response to a CONNECT request could not be written: the stub is not
\* connected and stands at the head of the beacon loop.
C29_Witness ==
    /\ evt.act = "recv"
    /\ evt.phase = "beacon"
    /\ evt.rcRecvRet = INF_SUCCESS
    /\ evt.enmRrnId = PSPSERIALPDURRNID_REQUEST_CONNECT
    /\ Len(evt.sent) = 1
    /\ ~evt.sent[1].fWritten
    /\ ~fConnected
    /\ pc = "beacon"

(***************************************************************************)
(* Claim about the receive buffer, checked under SpecBuf.                  *)
(***************************************************************************)
\* C26: in every state of the receive loop the bytes still to be read for
\* the current state end inside abPdu (offPduRecv + cbPduRecvLeft <= 4096),
\* at least one byte is to be read when the loop reads, and the bytes stored
\* are those below offPduRecv.
C26_RecvStaysInBuffer ==
    /\ offPduRecv >= 0
    /\ offPduRecv + cbPduRecvLeft <= PduBufBytes
    /\ pc = "recv" => cbPduRecvLeft > 0
    /\ 4 * Len(abPdu) = offPduRecv

\* The largest PDU the header validation accepts is in the buffer up to its
\* footer: the footer will fill abPdu to its last byte.
C26_Witness ==
    /\ pc = "recv"
    /\ enmPduRecvState = "FOOTER"
    /\ offPduRecv = PduBufBytes - PduFooterBytes
    /\ cbPduRecvLeft = PduFooterBytes

(***************************************************************************)
(* Claims about the SMN allocator, checked under SpecSmn.                  *)
(***************************************************************************)
\* The 16 bit half of the control register pair that belongs to slot i.
SmnRegHalf(regs, i) ==
    IF i % 2 = 1 THEN regs[i \div 2][1] ELSE regs[i \div 2][2]

\* The slot a successful call has worked on.
SmnCallSlot == SmnUnmapSlotIdx(evt'.pv)

\* C23: starting from all-zero control registers, a map or unmap of slot i
\* changes at most the half of register i/2 that belongs to slot i (low half
\* for even i, high half for odd i) and no other half of any register; a
\* failed call changes none; while slot i is referenced its half is
\* base >> 20, and when it is not its half is 0.
C23_SmnRegisterHalves ==
    [][/\ (evt'.act \in {"smnmap", "smnunmap"} /\ evt'.rcProc = INF_SUCCESS)
            => \A j \in SmnSlots :
                  j # SmnCallSlot
                     => SmnRegHalf(smnMapRegs', j) = SmnRegHalf(smnMapRegs, j)
       /\ (evt'.act \in {"smnmap", "smnunmap"} /\ evt'.rcProc # INF_SUCCESS)
            => smnMapRegs' = smnMapRegs
       /\ \A i \in SmnSlots :
             SmnRegHalf(smnMapRegs', i) =
                IF aSmnMapSlots'[i].cRefs > 0
                THEN aSmnMapSlots'[i].SmnAddrBase[1] \div 16 ELSE 0]_vars

\* Slots 0 and 1 shared a register; slot 0 was unmapped and its low half is
\* 0 while the high half still holds the page of slot 1.
C23_Witness ==
    /\ evt.act = "smnunmap"
    /\ evt.rcProc = INF_SUCCESS
    /\ aSmnMapSlots[0].cRefs = 0
    /\ aSmnMapSlots[1].cRefs > 0
    /\ aSmnMapSlots[1].SmnAddrBase # U32Zero
    /\ smnMapRegs[0] = <<aSmnMapSlots[1].SmnAddrBase[1] \div 16, 0>>

\* C24: a successful map of address X returns 0x01000000 + i * 1 MiB + the
\* offset of X in its page and raises the reference count of slot i, and of
\* no other slot, by one; a map that directly follows a successful map of
\* the same page succeeds on the same slot, with the same pointer for the
\* same address; a successful unmap lowers one count by one and frees the
\* slot only when the count reaches 0; a failed call changes no slot.
C24_SmnMapSharesSlot ==
    [][/\ (evt'.act = "smnmap" /\ evt'.rcProc = INF_SUCCESS)
            => /\ SmnCallSlot \in SmnSlots
               /\ evt'.pv = SmnWindowOrigin + (SmnCallSlot * _1M)
                               + SmnAddrOff(evt'.payload[1])
               /\ aSmnMapSlots' =
                     [aSmnMapSlots EXCEPT ![SmnCallSlot] =
                         [SmnAddrBase |-> SmnAddrBase(evt'.payload[1]),
                          cRefs       |-> @.cRefs + 1]]
       /\ (/\ evt.act = "smnmap"
           /\ evt.rcProc = INF_SUCCESS
           /\ evt'.act = "smnmap"
           /\ SmnAddrBase(evt'.payload[1]) = SmnAddrBase(evt.payload[1]))
            => /\ evt'.rcProc = INF_SUCCESS
               /\ SmnCallSlot = SmnUnmapSlotIdx(evt.pv)
               /\ evt'.payload = evt.payload => evt'.pv = evt.pv
       /\ (evt'.act = "smnunmap" /\ evt'.rcProc = INF_SUCCESS)
            => /\ SmnCallSlot \in SmnSlots
               /\ aSmnMapSlots[SmnCallSlot].cRefs > 0
               /\ aSmnMapSlots' =
                     [aSmnMapSlots EXCEPT ![SmnCallSlot] =
                         IF @.cRefs = 1 THEN SmnSlotFree
                         ELSE [@ EXCEPT !.cRefs = @ - 1]]
       /\ (evt'.act \in {"smnmap", "smnunmap"} /\ evt'.rcProc # INF_SUCCESS)
            => aSmnMapSlots' = aSmnMapSlots]_vars

\* The page at 1 MiB is mapped twice and nothing else is: slot 0 carries two
\* references and the last call returned the pointer at offset 4096 in it.
C24_Witness ==
    /\ evt.act = "smnmap"
    /\ evt.rcProc = INF_SUCCESS
    /\ evt.payload = <<(<<16, 4096>>)>>
    /\ evt.pv = SmnWindowOrigin + 4096
    /\ aSmnMapSlots[0] = [SmnAddrBase |-> <<16, 0>>, cRefs |-> 2]
    /\ SmnRefSum(aSmnMapSlots, SmnSlotCount - 1) = 2

(***************************************************************************)
(* Claim about both unmap operations, checked under SpecAlloc.             *)
(***************************************************************************)
\* The slots whose window the pointer pv lies in: one slot or none.
X86WindowOf(pv) ==
    {i \in X86Slots : /\ X86WindowOrigin + (i * _64M) <= pv
                      /\ pv < X86WindowOrigin + ((i + 1) * _64M)}
SmnWindowOf(pv) ==
    {i \in SmnSlots : /\ SmnWindowOrigin + (i * _1M) <= pv
                      /\ pv < SmnWindowOrigin + ((i + 1) * _1M)}

\* C30: an unmap with a pointer that lies in no window of the table, below
\* the first window included, or in the window of a slot without
\* references, returns ERR_INVALID_PARAMETER and changes no slot and no
\* control register; an unmap with a pointer anywhere in the window of a
\* referenced slot succeeds and lowers the count of that slot, and of no
\* other, by one; and the pointer a successful map returns lies in the
\* window of the slot whose count the map has raised.
C30_UnmapByPointer ==
    [][/\ evt'.act = "x86unmap"
            => IF \E i \in X86WindowOf(evt'.pv) : aX86MapSlots[i].cRefs > 0
               THEN /\ evt'.rcProc = INF_SUCCESS
                    /\ \A i \in X86Slots :
                          IF i \in X86WindowOf(evt'.pv)
                          THEN aX86MapSlots'[i].cRefs = aX86MapSlots[i].cRefs - 1
                          ELSE aX86MapSlots'[i] = aX86MapSlots[i]
               ELSE /\ evt'.rcProc = ERR_INVALID_PARAMETER
                    /\ UNCHANGED <<aX86MapSlots, x86MapRegs>>
       /\ evt'.act = "smnunmap"
            => IF \E i \in SmnWindowOf(evt'.pv) : aSmnMapSlots[i].cRefs > 0
               THEN /\ evt'.rcProc = INF_SUCCESS
                    /\ \A i \in SmnSlots :
                          IF i \in SmnWindowOf(evt'.pv)
                          THEN aSmnMapSlots'[i].cRefs = aSmnMapSlots[i].cRefs - 1
                          ELSE aSmnMapSlots'[i] = aSmnMapSlots[i]
               ELSE /\ evt'.rcProc = ERR_INVALID_PARAMETER
                    /\ UNCHANGED <<aSmnMapSlots, smnMapRegs>>
       /\ (evt'.act = "x86map" /\ evt'.rcProc = INF_SUCCESS)
            => \E i \in X86WindowOf(evt'.pv) :
                  aX86MapSlots'[i].cRefs = aX86MapSlots[i].cRefs + 1
       /\ (evt'.act = "smnmap" /\ evt'.rcProc = INF_SUCCESS)
            => \E i \in SmnWindowOf(evt'.pv) :
                  aSmnMapSlots'[i].cRefs = aSmnMapSlots[i].cRefs + 1
       /\ evt'.act \in {"x86map", "x86unmap"}
            => UNCHANGED <<aSmnMapSlots, smnMapRegs>>
       /\ evt'.act \in {"smnmap", "smnunmap"}
            => UNCHANGED <<aX86MapSlots, x86MapRegs>>]_vars

\* An unmap with a pointer below the first x86 window was refused while
\* slot 0 and slot 1 of the x86 table are referenced.
C30_Witness ==
    /\ evt.act = "x86unmap"
    /\ evt.pv = X86WindowOrigin - 1
    /\ evt.rcProc = ERR_INVALID_PARAMETER
    /\ aX86MapSlots[0].cRefs > 0
    /\ aX86MapSlots[1].cRefs > 0

(***************************************************************************)
(* Claim about the remainder of the timer, checked under SpecTimer.        *)
(***************************************************************************)
\* C31: after pspStubTimerInit and after every pspStubTimerHandle call the
\* ticks carried to the next call are less than one millisecond,
\* cSubMsTicks < 100000, whatever the counter register read, wrapped or not.
C31_SubMsTicksBelowMs ==
    /\ cSubMsTicks >= 0
    /\ cSubMsTicks < TicksPerMs

\* The counter has wrapped once and stands at 150000: 2^32 + 150000 ticks
\* are 42951 ms and 17296 ticks, the millisecond completed by carried ticks.
C31_Witness ==
    /\ evt.act = "millies"
    /\ cCnts = U32Of(TicksPerMs + 50000)
    /\ tmMillies = 42951
    /\ cSubMsTicks = 17296

=============================================================================
